---- MODULE Spec2Model ----
(***************************************************************************)
(* A model of the SysY compiler's semantic pipeline: the constant folder   *)
(* and its driver (src/ast/constant_folding.h, src/ast/ast_optimizer.h)    *)
(* and the IR generator (src/codegen/ir_generator.cpp).                    *)
(*                                                                         *)
(* AST nodes are records tagged by the field k, which plays the role of    *)
(* the dynamic type that the source discovers with dynamic_cast.  Source   *)
(* line numbers are not kept: they only feed diagnostics.                  *)
(*                                                                         *)
(* The C++ int is 32 bits wide; the model keeps the two's-complement       *)
(* arithmetic but at a word of IntBits bits, so that all operand pairs     *)
(* around the boundaries IntMin / IntMax can be enumerated.                *)
(***************************************************************************)
EXTENDS Integers, Sequences, FiniteSets, TLC

VARIABLES
    build,      \* what this build of the compiler does on signed overflow
    ast,        \* the CompUnitAST owned by main()
    pc,         \* position of main(): parsed, optimize, optimized, ...
    passCount,  \* ASTOptimizer::passCount
    changed,    \* ASTOptimizer::optimize local `changed`
    src,        \* the AST as the parser built it (never modified)
    lastFold,   \* the latest ConstantFolder::fold call: AST before, result
    foldCalls,  \* number of ConstantFolder::fold invocations so far
    gen,        \* the IRGenerator object
    looked      \* the latest lookupSymbol call: name, stack, returned value

vars == <<build, ast, pc, passCount, changed, src, lastFold, foldCalls, gen, looked>>

\* the variables of the front end and those of the IR generator
optVars == <<build, ast, pc, passCount, changed, src, lastFold, foldCalls>>
genVars == <<gen, looked>>

(***************************************************************************)
(* Bounds and program constants                                            *)
(***************************************************************************)
IntBits == 5
MaxPasses == 8
\* deepest scope stack explored when the scope operations run on their own
MaxScopeDepth == 3

Modulus == 2 ^ IntBits
IntMax == (2 ^ (IntBits - 1)) - 1
IntMin == 0 - (2 ^ (IntBits - 1))

\* Signed overflow is undefined behaviour in C++.  A build either wraps
\* everywhere ("wrap"), wraps add/sub/mul/neg but raises SIGFPE on the
\* overflowing division INT_MIN / -1 and INT_MIN % -1 ("divtrap", the
\* x86-64 idiv), or traps on every signed overflow ("trap", -ftrapv).
Builds == {"wrap", "divtrap", "trap"}

(***************************************************************************)
(* AST constructors (src/ast/ast.h)                                        *)
(***************************************************************************)
NullNode == [k |-> "Null"]
TrapNode == [k |-> "Trap"]

IntConstExprAST(v) == [k |-> "IntConst", v |-> v]
FloatConstExprAST(n, d) == [k |-> "FloatConst", num |-> n, den |-> d]
LValExprAST(name, indices) == [k |-> "LVal", name |-> name, indices |-> indices]
BinaryExprAST(op, lhs, rhs) == [k |-> "Binary", op |-> op, lhs |-> lhs, rhs |-> rhs]
UnaryExprAST(op, operand) == [k |-> "Unary", op |-> op, operand |-> operand]
CallExprAST(callee, args) == [k |-> "Call", callee |-> callee, args |-> args]
StringLiteralExprAST(s) == [k |-> "StringLiteral", value |-> s]

ExprInitValAST(e) == [k |-> "ExprInit", expr |-> e]
ListInitValAST(vals) == [k |-> "ListInit", vals |-> vals]

VarDefAST(name, sizes, init) == [name |-> name, sizes |-> sizes, init |-> init]
VarDeclAST(type, defs) == [k |-> "VarDecl", type |-> type, defs |-> defs]
ConstDeclAST(type, defs) == [k |-> "ConstDecl", type |-> type, defs |-> defs]

AssignStmtAST(lval, e) == [k |-> "Assign", lval |-> lval, expr |-> e]
ExprStmtAST(e) == [k |-> "ExprStmt", expr |-> e]
ReturnStmtAST(e) == [k |-> "Return", value |-> e]
IfStmtAST(c, t, e) == [k |-> "If", cond |-> c, then |-> t, else |-> e]
WhileStmtAST(c, b) == [k |-> "While", cond |-> c, body |-> b]
BreakStmtAST == [k |-> "Break"]
ContinueStmtAST == [k |-> "Continue"]
BlockAST(items) == [k |-> "Block", items |-> items]

FuncFParamAST(type, name, isArray, sizes) ==
    [type |-> type, name |-> name, isArray |-> isArray, sizes |-> sizes]
FunctionAST(retType, name, params, body) ==
    [retType |-> retType, name |-> name, params |-> params, body |-> body]
CompUnitAST(decls, functions) == [decls |-> decls, functions |-> functions]

BinaryOperators ==
    {"ADD", "SUB", "MUL", "DIV", "MOD", "LT", "GT", "LE", "GE", "EQ", "NE", "AND", "OR"}
UnaryOperators == {"PLUS", "MINUS", "NOT"}

\* ExprAST::isConstant: overridden to true by the two literal classes only
IsConstant(expr) == expr.k \in {"IntConst", "FloatConst"}

(***************************************************************************)
(* Machine arithmetic                                                      *)
(***************************************************************************)
Abs(x) == IF x < 0 THEN 0 - x ELSE x
Sign(x) == IF x < 0 THEN 0 - 1 ELSE 1

\* two's-complement reduction of a mathematical integer to the int range
Wrap(x) == ((x - IntMin) % Modulus) + IntMin

\* C++ integer division truncates toward zero; % takes the dividend's sign
TruncDiv(a, b) == Sign(a) * Sign(b) * (Abs(a) \div Abs(b))
TruncRem(a, b) == a - b * TruncDiv(a, b)

BoolInt(b) == IF b THEN 1 ELSE 0

IntResult(v) == [trap |-> FALSE, v |-> v]
IntTrap == [trap |-> TRUE, v |-> 0]

\* int arithmetic whose mathematical result is r: defined when r fits,
\* otherwise the build decides
SignedArith(r) ==
    IF r >= IntMin /\ r <= IntMax THEN IntResult(r)
    ELSE IF build = "trap" THEN IntTrap
    ELSE IntResult(Wrap(r))

\* lhs / rhs and lhs % rhs for rhs # 0: undefined for INT_MIN and -1
SignedDiv(lhs, rhs) ==
    IF lhs = IntMin /\ rhs = 0 - 1
    THEN IF build = "wrap" THEN IntResult(IntMin) ELSE IntTrap
    ELSE IntResult(TruncDiv(lhs, rhs))

SignedRem(lhs, rhs) ==
    IF lhs = IntMin /\ rhs = 0 - 1
    THEN IF build = "wrap" THEN IntResult(0) ELSE IntTrap
    ELSE IntResult(TruncRem(lhs, rhs))

(***************************************************************************)
(* Float literals.  A float value is kept as the exact fraction num/den    *)
(* in lowest terms (den > 0); rounding to binary32 is not modelled.        *)
(***************************************************************************)
RECURSIVE Gcd(_, _)
Gcd(a, b) == IF b = 0 THEN a ELSE Gcd(b, a % b)

Frac(n, d) ==
    LET g == Gcd(Abs(n), Abs(d))
        s == IF d < 0 THEN 0 - 1 ELSE 1
    IN  [num |-> s * (n \div g), den |-> s * (d \div g)]

FZero == [num |-> 0, den |-> 1]
FOne == [num |-> 1, den |-> 1]
FBool(b) == IF b THEN FOne ELSE FZero
FLess(a, b) == a.num * b.den < b.num * a.den

(***************************************************************************)
(* ConstantFolder (src/ast/constant_folding.h)                             *)
(***************************************************************************)
\* int evaluateBinaryOp(Operator, int, int)
EvaluateBinaryOpInt(op, lhs, rhs) ==
    CASE op = "ADD" -> SignedArith(lhs + rhs)
      [] op = "SUB" -> SignedArith(lhs - rhs)
      [] op = "MUL" -> SignedArith(lhs * rhs)
      [] op = "DIV" -> IF rhs # 0 THEN SignedDiv(lhs, rhs) ELSE IntResult(0)
      [] op = "MOD" -> IF rhs # 0 THEN SignedRem(lhs, rhs) ELSE IntResult(0)
      [] op = "LT"  -> IntResult(BoolInt(lhs < rhs))
      [] op = "GT"  -> IntResult(BoolInt(lhs > rhs))
      [] op = "LE"  -> IntResult(BoolInt(lhs <= rhs))
      [] op = "GE"  -> IntResult(BoolInt(lhs >= rhs))
      [] op = "EQ"  -> IntResult(BoolInt(lhs = rhs))
      [] op = "NE"  -> IntResult(BoolInt(lhs # rhs))
      [] op = "AND" -> IntResult(BoolInt(lhs # 0 /\ rhs # 0))
      [] op = "OR"  -> IntResult(BoolInt(lhs # 0 \/ rhs # 0))
      [] OTHER      -> IntResult(0)

\* float evaluateBinaryOp(Operator, float, float)
EvaluateBinaryOpFloat(op, lhs, rhs) ==
    CASE op = "ADD" -> Frac(lhs.num * rhs.den + rhs.num * lhs.den, lhs.den * rhs.den)
      [] op = "SUB" -> Frac(lhs.num * rhs.den - rhs.num * lhs.den, lhs.den * rhs.den)
      [] op = "MUL" -> Frac(lhs.num * rhs.num, lhs.den * rhs.den)
      [] op = "DIV" -> IF rhs.num # 0
                       THEN Frac(lhs.num * rhs.den, lhs.den * rhs.num)
                       ELSE FZero
      [] op = "MOD" -> FZero
      [] op = "LT"  -> FBool(FLess(lhs, rhs))
      [] op = "GT"  -> FBool(FLess(rhs, lhs))
      [] op = "LE"  -> FBool(~FLess(rhs, lhs))
      [] op = "GE"  -> FBool(~FLess(lhs, rhs))
      [] op = "EQ"  -> FBool(lhs = rhs)
      [] op = "NE"  -> FBool(lhs # rhs)
      [] op = "AND" -> FBool(lhs.num # 0 /\ rhs.num # 0)
      [] op = "OR"  -> FBool(lhs.num # 0 \/ rhs.num # 0)
      [] OTHER      -> FZero

\* int evaluateUnaryOp(Operator, int)
EvaluateUnaryOpInt(op, operand) ==
    CASE op = "PLUS"  -> IntResult(operand)
      [] op = "MINUS" -> SignedArith(0 - operand)
      [] op = "NOT"   -> IntResult(BoolInt(operand = 0))
      [] OTHER        -> IntResult(operand)

\* float evaluateUnaryOp(Operator, float)
EvaluateUnaryOpFloat(op, operand) ==
    CASE op = "PLUS"  -> operand
      [] op = "MINUS" -> Frac(0 - operand.num, operand.den)
      [] op = "NOT"   -> FBool(operand.num = 0)
      [] OTHER        -> operand

IntLiteral(r) == IF r.trap THEN TrapNode ELSE IntConstExprAST(r.v)
FloatLiteral(f) == FloatConstExprAST(f.num, f.den)
FloatValue(e) == [num |-> e.num, den |-> e.den]

\* The value of the one-element set S.  `Only({e(x) : x \in {v}})` is
\* `LET x == v IN e(x)` with v evaluated once, wherever x is used.
Only(S) == CHOOSE x \in S : TRUE

\* foldAndReplaceExpr: the folded copy of expr, or TrapNode when the
\* evaluation of an operator kills the process
RECURSIVE FoldAndReplaceExpr(_)
RECURSIVE FoldExprList(_)

FoldExprList(es) ==
    IF es = <<>> THEN <<>>
    ELSE Only({IF h.k = "Trap" THEN <<TrapNode>> ELSE <<h>> \o FoldExprList(Tail(es)) :
               h \in {FoldAndReplaceExpr(Head(es))}})

HasTrap(es) == \E i \in 1..Len(es) : es[i].k = "Trap"

\* the literal or the expression node that a folded binary / unary becomes
FoldedBinary(op, lhs, rhs) ==
    IF lhs.k = "Trap" \/ rhs.k = "Trap" THEN TrapNode
    ELSE IF lhs.k = "IntConst" /\ rhs.k = "IntConst"
         THEN IntLiteral(EvaluateBinaryOpInt(op, lhs.v, rhs.v))
    ELSE IF lhs.k = "FloatConst" /\ rhs.k = "FloatConst"
         THEN FloatLiteral(EvaluateBinaryOpFloat(op, FloatValue(lhs), FloatValue(rhs)))
    ELSE BinaryExprAST(op, lhs, rhs)

FoldedUnary(op, operand) ==
    IF operand.k = "Trap" THEN TrapNode
    ELSE IF operand.k = "IntConst"
         THEN IntLiteral(EvaluateUnaryOpInt(op, operand.v))
    ELSE IF operand.k = "FloatConst"
         THEN FloatLiteral(EvaluateUnaryOpFloat(op, FloatValue(operand)))
    ELSE UnaryExprAST(op, operand)

\* a folder that decides on the operands as they were before folding them
FoldAndReplaceExpr_Shallow(expr) ==
    IF expr.k = "Null" THEN NullNode
    ELSE IF IsConstant(expr) THEN expr
    ELSE IF expr.k = "Binary" THEN
        Only({IF IsConstant(expr.lhs) /\ IsConstant(expr.rhs)
              THEN FoldedBinary(expr.op, lhs, rhs)
              ELSE IF lhs.k = "Trap" \/ rhs.k = "Trap" THEN TrapNode
              ELSE BinaryExprAST(expr.op, lhs, rhs) :
              lhs \in {FoldAndReplaceExpr(expr.lhs)},
              rhs \in {FoldAndReplaceExpr(expr.rhs)}})
    ELSE IF expr.k = "Unary" THEN
        Only({IF IsConstant(expr.operand)
              THEN FoldedUnary(expr.op, operand)
              ELSE IF operand.k = "Trap" THEN TrapNode
              ELSE UnaryExprAST(expr.op, operand) :
              operand \in {FoldAndReplaceExpr(expr.operand)}})
    ELSE IF expr.k = "Call" THEN
        Only({IF HasTrap(args) THEN TrapNode ELSE CallExprAST(expr.callee, args) :
              args \in {FoldExprList(expr.args)}})
    ELSE IF expr.k = "LVal" THEN
        Only({IF HasTrap(indices) THEN TrapNode ELSE LValExprAST(expr.name, indices) :
              indices \in {FoldExprList(expr.indices)}})
    ELSE expr

FoldAndReplaceExpr(expr) ==
    IF expr.k = "Null" THEN NullNode
    ELSE IF IsConstant(expr) THEN expr
    ELSE IF expr.k = "Binary" THEN
        Only({FoldedBinary(expr.op, lhs, rhs) :
              lhs \in {FoldAndReplaceExpr(expr.lhs)},
              rhs \in {FoldAndReplaceExpr(expr.rhs)}})
    ELSE IF expr.k = "Unary" THEN
        Only({FoldedUnary(expr.op, operand) :
              operand \in {FoldAndReplaceExpr(expr.operand)}})
    ELSE IF expr.k = "Call" THEN
        Only({IF HasTrap(args) THEN TrapNode ELSE CallExprAST(expr.callee, args) :
              args \in {FoldExprList(expr.args)}})
    ELSE IF expr.k = "LVal" THEN
        Only({IF HasTrap(indices) THEN TrapNode ELSE LValExprAST(expr.name, indices) :
              indices \in {FoldExprList(expr.indices)}})
    ELSE expr

\* `foldedExpr.get() != node->getExpr()`: the pointer comparison the
\* callers of foldAndReplaceExpr use to decide whether anything changed.
\* Only the null path hands back its argument; every other return is a
\* clone() or a make_unique, hence a different object.
FoldedIsOtherNode(expr) == expr.k # "Null"

\* result of folding one node: the node afterwards, the returned flag,
\* and whether the process died on the way
Folded(n, c) == [n |-> n, changed |-> c, trap |-> FALSE]
FoldTrap(n) == [n |-> n, changed |-> FALSE, trap |-> TRUE]

\* the idiom `auto folded = foldAndReplaceExpr(e);
\*            if (folded.get() != e) { set(folded); changed = true; }`
FoldSlot(expr) ==
    Only({IF folded.k = "Trap" THEN FoldTrap(expr)
          ELSE IF FoldedIsOtherNode(expr) THEN Folded(folded, TRUE)
          ELSE Folded(expr, FALSE) :
          folded \in {FoldAndReplaceExpr(expr)}})

\* `changed |= <folding of the next element>` over a sequence: h is the
\* result for the head, t for the tail
FoldedSeq(all, h, t) ==
    IF h.trap \/ t.trap THEN FoldTrap(all)
    ELSE Folded(<<h.n>> \o t.n, h.changed \/ t.changed)

\* one node rebuilt from the folding r of its only child
FoldedFrom(orig, r, rebuilt) ==
    IF r.trap THEN FoldTrap(orig) ELSE Folded(rebuilt, r.changed)

RECURSIVE FoldInitVal(_)
RECURSIVE FoldInitVals(_)
RECURSIVE FoldStmt(_)
RECURSIVE FoldItems(_)

\* the loop of foldInitVal over the list elements
FoldInitVals(vals) ==
    IF vals = <<>> THEN Folded(<<>>, FALSE)
    ELSE Only({FoldedSeq(vals, h, t) :
               h \in {FoldInitVal(Head(vals))}, t \in {FoldInitVals(Tail(vals))}})

FoldInitVal(initVal) ==
    IF initVal.k = "ExprInit" THEN
        Only({FoldedFrom(initVal, r, ExprInitValAST(r.n)) : r \in {FoldSlot(initVal.expr)}})
    ELSE IF initVal.k = "ListInit" THEN
        Only({FoldedFrom(initVal, r, ListInitValAST(r.n)) : r \in {FoldInitVals(initVal.vals)}})
    ELSE Folded(initVal, FALSE)

\* one VarDefAST / ConstDefAST: `if (def->getInitVal()) changed |= foldInitVal(...)`
FoldDef(d) ==
    IF d.init.k # "Null"
    THEN Only({FoldedFrom(d, r, [d EXCEPT !.init = r.n]) : r \in {FoldInitVal(d.init)}})
    ELSE Folded(d, FALSE)

\* the loop of foldDecl over the definitions of one declaration
RECURSIVE FoldDefs(_)
FoldDefs(defs) ==
    IF defs = <<>> THEN Folded(<<>>, FALSE)
    ELSE Only({FoldedSeq(defs, h, t) :
               h \in {FoldDef(Head(defs))}, t \in {FoldDefs(Tail(defs))}})

FoldDecl(decl) ==
    Only({FoldedFrom(decl, r, [decl EXCEPT !.defs = r.n]) : r \in {FoldDefs(decl.defs)}})

\* foldBlock's loop over the block items
FoldItems(items) ==
    IF items = <<>> THEN Folded(<<>>, FALSE)
    ELSE Only({FoldedSeq(items, h, t) :
               h \in {IF Head(items).k \in {"VarDecl", "ConstDecl"}
                      THEN FoldDecl(Head(items)) ELSE FoldStmt(Head(items))},
               t \in {FoldItems(Tail(items))}})

FoldBlock(block) ==
    Only({FoldedFrom(block, r, BlockAST(r.n)) : r \in {FoldItems(block.items)}})

\* the if statement: condition, then branch, optional else branch, and the
\* final `if (dynamic_cast<IntConstExprAST*>(condition)) changed = true`
FoldedIf(stmt, c, t, e) ==
    IF c.trap \/ t.trap \/ e.trap THEN FoldTrap(stmt)
    ELSE Folded(IfStmtAST(c.n, t.n, e.n),
                c.changed \/ t.changed \/ e.changed \/ c.n.k = "IntConst")

FoldedWhile(stmt, c, b) ==
    IF c.trap \/ b.trap THEN FoldTrap(stmt)
    ELSE Folded(WhileStmtAST(c.n, b.n), c.changed \/ b.changed)

FoldStmt(stmt) ==
    IF stmt.k = "Assign" THEN
        Only({FoldedFrom(stmt, r, AssignStmtAST(stmt.lval, r.n)) : r \in {FoldSlot(stmt.expr)}})
    ELSE IF stmt.k = "If" THEN
        Only({FoldedIf(stmt, c, t, e) :
              c \in {FoldSlot(stmt.cond)},
              t \in {FoldStmt(stmt.then)},
              e \in {IF stmt.else.k # "Null" THEN FoldStmt(stmt.else)
                     ELSE Folded(stmt.else, FALSE)}})
    ELSE IF stmt.k = "While" THEN
        Only({FoldedWhile(stmt, c, b) :
              c \in {FoldSlot(stmt.cond)}, b \in {FoldStmt(stmt.body)}})
    ELSE IF stmt.k = "Block" THEN FoldBlock(stmt)
    ELSE IF stmt.k = "ExprStmt" THEN
        IF stmt.expr.k # "Null"
        THEN Only({FoldedFrom(stmt, r, ExprStmtAST(r.n)) : r \in {FoldSlot(stmt.expr)}})
        ELSE Folded(stmt, FALSE)
    ELSE IF stmt.k = "Return" THEN
        IF stmt.value.k # "Null"
        THEN Only({FoldedFrom(stmt, r, ReturnStmtAST(r.n)) : r \in {FoldSlot(stmt.value)}})
        ELSE Folded(stmt, FALSE)
    ELSE Folded(stmt, FALSE)

\* foldFunction
FoldFunction(func) ==
    Only({FoldedFrom(func, r, [func EXCEPT !.body = r.n]) : r \in {FoldBlock(func.body)}})

\* the two loops of fold: global declarations, then functions
RECURSIVE FoldDecls(_)
FoldDecls(decls) ==
    IF decls = <<>> THEN Folded(<<>>, FALSE)
    ELSE Only({FoldedSeq(decls, h, t) :
               h \in {FoldDecl(Head(decls))}, t \in {FoldDecls(Tail(decls))}})

RECURSIVE FoldFunctions(_)
FoldFunctions(funcs) ==
    IF funcs = <<>> THEN Folded(<<>>, FALSE)
    ELSE Only({FoldedSeq(funcs, h, t) :
               h \in {FoldFunction(Head(funcs))}, t \in {FoldFunctions(Tail(funcs))}})

\* bool ConstantFolder::fold(CompUnitAST*)
Fold(unit) ==
    Only({IF d.trap \/ f.trap THEN FoldTrap(unit)
          ELSE Folded(CompUnitAST(d.n, f.n), d.changed \/ f.changed) :
          d \in {FoldDecls(unit.decls)}, f \in {FoldFunctions(unit.functions)}})

(***************************************************************************)
(* ASTOptimizer (src/ast/ast_optimizer.h)                                  *)
(***************************************************************************)
\* the loop bound off by one: `passCount <= 8`
OptimizeLoopCond_OffByOne(c, p) == c /\ p <= MaxPasses

\* `while (changed && passCount < 8)`
OptimizeLoopCond(c, p) == c /\ p < MaxPasses

NoFold == [called |-> FALSE, before |-> NullNode, ret |-> FALSE]

\* optimize(): entry, `bool changed = true`
OptimizeBegin ==
    /\ pc = "parsed"
    /\ pc' = "optimize"
    /\ changed' = TRUE
    /\ UNCHANGED <<build, ast, passCount, src, lastFold, foldCalls>>
    /\ UNCHANGED genVars

\* one iteration of the loop: passCount++, changed = false,
\* changed |= constantFolder.fold(ast)
OptimizePass ==
    /\ pc = "optimize"
    /\ OptimizeLoopCond(changed, passCount)
    /\ \E r \in {Fold(ast)} :
           /\ passCount' = passCount + 1
           /\ foldCalls' = foldCalls + 1
           /\ IF r.trap
              THEN /\ pc' = "crashed"
                   /\ UNCHANGED <<ast, changed, lastFold>>
              ELSE /\ pc' = pc
                   /\ ast' = r.n
                   /\ changed' = r.changed
                   /\ lastFold' = [called |-> TRUE, before |-> ast, ret |-> r.changed]
    /\ UNCHANGED <<build, src>>
    /\ UNCHANGED genVars

\* the loop condition fails: optimize() returns
OptimizeExit ==
    /\ pc = "optimize"
    /\ ~OptimizeLoopCond(changed, passCount)
    /\ pc' = "optimized"
    /\ UNCHANGED <<build, ast, passCount, changed, src, lastFold, foldCalls>>
    /\ UNCHANGED genVars

(***************************************************************************)
(* Input programs for the optimizer                                        *)
(***************************************************************************)
IntType == [k |-> "INT"]
FloatType == [k |-> "FLOAT"]
VoidType == [k |-> "VOID"]
VectorType(elem, size) == [k |-> "VECTOR", elem |-> elem, size |-> size]

\* the parser only builds non-negative integer literals (std::stoi of the
\* digits); a negative operand is written with unary minus, and INT_MIN
\* as -INT_MAX - 1
IntLitForm(v) ==
    IF v >= 0 THEN IntConstExprAST(v)
    ELSE IF v = IntMin
         THEN BinaryExprAST("SUB", UnaryExprAST("MINUS", IntConstExprAST(IntMax)),
                            IntConstExprAST(1))
    ELSE UnaryExprAST("MINUS", IntConstExprAST(0 - v))

IntLitValues == {IntMin, IntMin + 1, 0 - 2, 0 - 1, 0, 1, 2, 3, IntMax - 1, IntMax}

MainOf(items) == FunctionAST(IntType, "main", <<>>, BlockAST(items))
UnitOf(decls, items) == CompUnitAST(decls, <<MainOf(items)>>)

\* `int main() { return a op b; }` for every operator and operand pair
LitPairProgram(op, a, b) ==
    UnitOf(<<>>, <<ReturnStmtAST(BinaryExprAST(op, IntLitForm(a), IntLitForm(b)))>>)
LitPairPrograms ==
    {LitPairProgram(op, a, b) : op \in BinaryOperators, a \in IntLitValues, b \in IntLitValues}

LVx == LValExprAST("x", <<>>)
FHalf == FloatConstExprAST(3, 2)
Atoms == {IntConstExprAST(0), IntConstExprAST(2), FHalf, LVx}
Exprs1 ==
    {BinaryExprAST(op, a, b) : op \in {"ADD", "DIV", "MOD", "LT", "AND"}, a \in Atoms, b \in Atoms}
      \cup {UnaryExprAST(op, a) : op \in UnaryOperators, a \in Atoms}
Exprs2 ==
    {BinaryExprAST(op, e, a) : op \in {"MUL", "OR"}, e \in Exprs1, a \in {IntConstExprAST(2), FHalf}}
      \cup {BinaryExprAST("SUB", LVx, e) : e \in Exprs1}
      \cup {UnaryExprAST("MINUS", e) : e \in Exprs1}
      \cup {LValExprAST("a", <<e>>) : e \in Exprs1}
      \cup {CallExprAST("f", <<e, IntConstExprAST(2)>>) : e \in Exprs1}
      \cup {StringLiteralExprAST("s"), CallExprAST("getint", <<>>)}
FoldExprs == Atoms \cup Exprs1 \cup Exprs2

\* a few expressions placed in every statement position the folder visits
SlotExprs ==
    {IntConstExprAST(0), LVx,
     BinaryExprAST("ADD", IntConstExprAST(2), IntConstExprAST(2)),
     BinaryExprAST("ADD", LVx, BinaryExprAST("MUL", IntConstExprAST(2), IntConstExprAST(2))),
     BinaryExprAST("LT", FHalf, IntConstExprAST(2))}
Ret0 == ReturnStmtAST(IntConstExprAST(0))
SlotStmts ==
    {AssignStmtAST(LVx, e) : e \in SlotExprs}
      \cup {AssignStmtAST(LValExprAST("a", <<e>>), IntConstExprAST(0)) : e \in SlotExprs}
      \cup {ExprStmtAST(e) : e \in SlotExprs \cup {NullNode}}
      \cup {ReturnStmtAST(NullNode), BreakStmtAST, ContinueStmtAST}
      \cup {IfStmtAST(e, Ret0, NullNode) : e \in SlotExprs}
      \cup {IfStmtAST(LVx, ReturnStmtAST(e), ReturnStmtAST(f)) : e \in SlotExprs, f \in SlotExprs}
      \cup {WhileStmtAST(e, BlockAST(<<AssignStmtAST(LVx, f), BreakStmtAST>>)) :
                e \in SlotExprs, f \in SlotExprs}
      \cup {BlockAST(<<>>)}
SlotDecls ==
    {VarDeclAST(IntType, <<VarDefAST("x", <<>>, NullNode)>>)}
      \cup {VarDeclAST(IntType, <<VarDefAST("x", <<>>, ExprInitValAST(e))>>) : e \in SlotExprs}
      \cup {ConstDeclAST(IntType, <<VarDefAST("a", <<IntConstExprAST(2), IntConstExprAST(2)>>,
                ListInitValAST(<<ExprInitValAST(e), ListInitValAST(<<ExprInitValAST(f)>>)>>))>>) :
                e \in SlotExprs, f \in SlotExprs}

FoldPrograms ==
    LitPairPrograms
      \cup {UnitOf(<<>>, <<ReturnStmtAST(e)>>) : e \in FoldExprs}
      \cup {UnitOf(<<>>, <<s, Ret0>>) : s \in SlotStmts}
      \cup {UnitOf(<<>>, <<d, Ret0>>) : d \in SlotDecls}
      \cup {UnitOf(<<d>>, <<Ret0>>) : d \in SlotDecls}

(***************************************************************************)
(* IRGenerator: the object and its scope stack                             *)
(* (src/codegen/ir_generator.h, src/codegen/ir_generator.cpp)              *)
(***************************************************************************)
\* a null llvm::Value* / llvm::Type* / llvm::Function*
NullValue == [v |-> "null"]

\* SymbolInfo(v, c, a, elemType): loadedArrayPtr starts null
SymbolInfo(value, isConst, isArray, arrayElementType) ==
    [value |-> value, isConst |-> isConst, isArray |-> isArray,
     arrayElementType |-> arrayElementType, loadedArrayPtr |-> NullValue]

\* std::nullopt
Nullopt == [v |-> "nullopt"]

\* an empty std::map<std::string, SymbolInfo>
EmptyScope == [n \in {} |-> NullValue]

\* IRGenerator::IRGenerator(): every container empty, no module, no
\* current function.  currentFunction is the position of the function in
\* module.functions (0 for nullptr) and insertBlock the id of the block the
\* builder appends to.  hasMainFunc is the local of generate().  val holds
\* the llvm::Value* returned by the latest expression lowering, at the
\* position in the function body of the statement being lowered.  err is
\* the what() of the exception in flight ("" if none); an operation on a
\* generator whose exception is in flight is never executed.
NewIRGenerator ==
    [module |-> NullValue,
     symbolTableStack |-> <<>>,
     currentFunction |-> 0,
     insertBlock |-> 0,
     breakTargets |-> <<>>,
     continueTargets |-> <<>>,
     libraryFunctions |-> EmptyScope,
     hasMainFunc |-> FALSE,
     val |-> NullValue,
     at |-> <<>>,
     err |-> ""]

\* throw std::runtime_error(msg)
Throw(g, msg) == [g EXCEPT !.err = msg]

\* void IRGenerator::pushScope()
PushScope(g) ==
    IF g.err # "" THEN g
    ELSE [g EXCEPT !.symbolTableStack = Append(@, EmptyScope)]

\* void IRGenerator::popScope()
PopScope(g) ==
    IF g.err # "" THEN g
    ELSE IF g.symbolTableStack = <<>>
    THEN Throw(g, "Cannot pop scope: stack is empty")
    ELSE [g EXCEPT !.symbolTableStack = SubSeq(@, 1, Len(@) - 1)]

\* the search of lookupSymbol over the frames i, i-1, ..., 1
RECURSIVE LookupFrom(_, _, _)
LookupFrom(stack, i, name) ==
    IF i = 0 THEN Nullopt
    ELSE IF name \in DOMAIN stack[i] THEN stack[i][name]
    ELSE LookupFrom(stack, i - 1, name)

\* a search that starts at the outermost frame
RECURSIVE LookupFromOutermost(_, _, _)
LookupFromOutermost(stack, i, name) ==
    IF i > Len(stack) THEN Nullopt
    ELSE IF name \in DOMAIN stack[i] THEN stack[i][name]
    ELSE LookupFromOutermost(stack, i + 1, name)

LookupSymbol_OutermostFirst(g, name) ==
    LookupFromOutermost(g.symbolTableStack, 1, name)

\* std::optional<SymbolInfo> IRGenerator::lookupSymbol(name): reverse
\* iteration, the first frame that has the name decides
LookupSymbol(g, name) ==
    LookupFrom(g.symbolTableStack, Len(g.symbolTableStack), name)

\* void IRGenerator::addSymbol(name, info)
AddSymbol(g, name, info) ==
    IF g.err # "" THEN g
    ELSE IF g.symbolTableStack = <<>>
    THEN Throw(g, "Cannot add symbol: no scope available")
    ELSE IF name \in DOMAIN g.symbolTableStack[Len(g.symbolTableStack)]
    THEN Throw(g, "Redeclaration of symbol")
    ELSE [g EXCEPT !.symbolTableStack[Len(g.symbolTableStack)] = (name :> info) @@ @]

NoLookup == [called |-> FALSE, name |-> "", result |-> Nullopt]

(***************************************************************************)
(* LLVM IR as the generator builds it                                      *)
(***************************************************************************)
\* llvm::Type.  Pointers are opaque: every PointerType::get gives "ptr".
I32 == [t |-> "i32"]
I1 == [t |-> "i1"]
FloatTy == [t |-> "float"]
VoidTy == [t |-> "void"]
PtrTy == [t |-> "ptr"]
ArrayTy(elem, n) == [t |-> "array", elem |-> elem, n |-> n]
VectorTy(elem, n) == [t |-> "vector", elem |-> elem, n |-> n]
NoType == [t |-> "none"]

IsIntegerTy(ty) == ty.t \in {"i32", "i1"}
IsFloatTy(ty) == ty.t = "float"
IsPointerTy(ty) == ty.t = "ptr"
IsArrayTy(ty) == ty.t = "array"
IsVoidTy(ty) == ty.t = "void"
IsVectorTy(ty) == ty.t = "vector"

\* llvm::Value.  v is the class of the value, ty its type, id the number
\* of the instruction or argument in its function, c the value of a
\* constant or the name of a global, aty the type that getAllocatedType /
\* getValueType give for an alloca / a global variable.
Value(v, ty, id, c, aty) == [v |-> v, ty |-> ty, id |-> id, c |-> c, aty |-> aty]
ConstantInt(ty, c) == Value("const", ty, 0, Wrap(c), NoType)
ConstantFP(f) == Value("constfp", FloatTy, 0, f, NoType)
UndefValue(ty) == Value("undef", ty, 0, 0, NoType)
PoisonValue(ty) == Value("poison", ty, 0, 0, NoType)
Argument(ty, idx) == Value("arg", ty, idx, 0, NoType)
GlobalVariable(name, valueType) == Value("global", PtrTy, 0, name, valueType)
IsConstantValue(val) == val.v \in {"const", "constfp", "undef", "poison", "global"}

\* a BasicBlock: its number in the function, the name it was created
\* with, and the position of the statement that created it
BasicBlock(id, name, at) == [id |-> id, name |-> name, at |-> at]

\* an instruction: op-code, result type, value operands, block operands,
\* one more attribute (the predicate, the callee, the allocated type, ...)
Inst(op, ty, args, dest, extra) ==
    [op |-> op, ty |-> ty, args |-> args, dest |-> dest, extra |-> extra]

IsTerminator(inst) == inst.op \in {"br", "condbr", "ret"}

\* std::make_unique<llvm::Module>: no functions, no globals; lastUnique is
\* the counter the module's symbol table uses to rename on a name clash
NewModule == [functions |-> <<>>, globals |-> <<>>, lastUnique |-> 0]

\* the names the module's symbol table holds
ModuleNames(m) ==
    {m.functions[i].name : i \in 1..Len(m.functions)}
        \cup {m.globals[i].name : i \in 1..Len(m.globals)}

\* the decimal digits of a small counter
Digits(n) == CASE n = 0 -> "0" [] n = 1 -> "1" [] n = 2 -> "2" [] n = 3 -> "3"
               [] n = 4 -> "4" [] n = 5 -> "5" [] n = 6 -> "6" [] n = 7 -> "7"
               [] n = 8 -> "8" [] OTHER -> "9"

\* ValueSymbolTable: a global value whose name is taken gets the name
\* followed by "." and the next value of the counter
UniqueName(m, name) ==
    IF name \in ModuleNames(m) THEN name \o "." \o Digits(m.lastUnique + 1) ELSE name
UniqueCount(m, name) ==
    IF name \in ModuleNames(m) THEN m.lastUnique + 1 ELSE m.lastUnique

\* llvm::Function::Create(funcType, linkage, name, module.get()).  With a
\* null module the function belongs to no module.  user and astIndex
\* record which FunctionAST, if any, the function was created for.
FunctionCreate(g, retType, paramTypes, isVarArg, linkage, name, astIndex) ==
    IF g.module = NullValue THEN g
    ELSE [g EXCEPT
            !.module.functions = Append(@,
                [name |-> UniqueName(g.module, name), srcName |-> name,
                 user |-> astIndex # 0, astIndex |-> astIndex,
                 linkage |-> linkage, retType |-> retType,
                 paramTypes |-> paramTypes, isVarArg |-> isVarArg,
                 blocks |-> <<>>, nextBlock |-> 1, nextId |-> 1]),
            !.module.lastUnique = UniqueCount(g.module, name)]

\* Module::getFunction(name): position in module.functions, 0 if absent
GetFunction(m, name) ==
    LET found == {i \in 1..Len(m.functions) : m.functions[i].name = name}
    IN  IF found = {} THEN 0 ELSE CHOOSE i \in found : TRUE

\* the function under construction
CurFn(g) == g.module.functions[g.currentFunction]

\* position in the layout of the current function of the block with this id
BlockIndex(fn, id) == CHOOSE i \in 1..Len(fn.blocks) : fn.blocks[i].id = id

\* builder.GetInsertBlock(), as it stands in the function
InsertBlock(g) == CurFn(g).blocks[BlockIndex(CurFn(g), g.insertBlock)]

\* BasicBlock::getTerminator(): the last instruction when it is a
\* terminator, else null
GetTerminator(block) ==
    IF block.insts # <<>> /\ IsTerminator(block.insts[Len(block.insts)])
    THEN block.insts[Len(block.insts)] ELSE NullValue

\* BasicBlock::Create(context, name): a block that is in no function yet.
\* The block is in g.val.
CreateBlock(g, name) ==
    IF g.err # "" THEN g
    ELSE [g EXCEPT !.val = BasicBlock(CurFn(g).nextBlock, name, g.at),
                   !.module.functions[g.currentFunction].nextBlock = @ + 1]

\* theFunction->insert(theFunction->end(), bb)
InsertBlockAtEnd(g, bb) ==
    IF g.err # "" THEN g
    ELSE [g EXCEPT !.module.functions[g.currentFunction].blocks =
                       Append(@, [id |-> bb.id, name |-> bb.name, at |-> bb.at,
                                  insts |-> <<>>])]

\* builder.SetInsertPoint(bb)
SetInsertPoint(g, bb) ==
    IF g.err # "" THEN g ELSE [g EXCEPT !.insertBlock = bb.id]

\* IRBuilder::Insert: the instruction goes to the end of the insert block;
\* the value it defines is in g.val.  Without an insertion point (at
\* global scope) the instruction is made and put nowhere.
Emit(g, inst) ==
    IF g.err # "" THEN g
    ELSE IF g.currentFunction = 0
    THEN [g EXCEPT !.val = Value("inst", inst.ty, 0, inst.op,
                                 IF inst.op = "alloca" THEN inst.extra ELSE NoType)]
    ELSE LET fn == CurFn(g)
             id == fn.nextId
             b == BlockIndex(fn, g.insertBlock)
         IN  [g EXCEPT
                !.module.functions[g.currentFunction].blocks[b].insts =
                    Append(@, [id |-> id, at |-> g.at] @@ inst),
                !.module.functions[g.currentFunction].nextId = id + 1,
                !.val = Value("inst", inst.ty, id, inst.op,
                              IF inst.op = "alloca" THEN inst.extra ELSE NoType)]

\* an expression lowering returns val
Return(g, val) == IF g.err # "" THEN g ELSE [g EXCEPT !.val = val]

\* the statement position that the instructions emitted next belong to
At(g, path) == IF g.err # "" THEN g ELSE [g EXCEPT !.at = path]

\* a path of the lowering that the model does not follow (vector types,
\* string literals, arithmetic of the builder on float constants, ...);
\* no input program of the model reaches one, see ModelCovers
NotModelledMsg == "not modelled"
NotModelled(g) == IF g.err # "" THEN g ELSE [g EXCEPT !.err = NotModelledMsg]

\* bitwise and / or of two integers in two's complement: bit by bit on
\* the unsigned forms
RECURSIVE BitwiseOp(_, _, _, _)
BitwiseOp(op, a, b, n) ==
    IF n = 0 THEN 0
    ELSE LET bit == IF op = "and" THEN BoolInt(a % 2 = 1 /\ b % 2 = 1)
                    ELSE BoolInt(a % 2 = 1 \/ b % 2 = 1)
         IN  bit + 2 * BitwiseOp(op, a \div 2, b \div 2, n - 1)
Bitwise(op, a, b) == Wrap(BitwiseOp(op, a % Modulus, b % Modulus, IntBits))

\* the IRBuilder's constant folder on two i32 constants
FoldBinOp(op, a, b) ==
    CASE op = "add" -> ConstantInt(I32, a + b)
      [] op = "sub" -> ConstantInt(I32, a - b)
      [] op = "mul" -> ConstantInt(I32, a * b)
      [] op = "sdiv" -> IF b = 0 \/ (a = IntMin /\ b = 0 - 1) THEN PoisonValue(I32)
                        ELSE ConstantInt(I32, TruncDiv(a, b))
      [] op = "srem" -> IF b = 0 \/ (a = IntMin /\ b = 0 - 1) THEN PoisonValue(I32)
                        ELSE ConstantInt(I32, TruncRem(a, b))
      [] op \in {"and", "or"} -> ConstantInt(I32, Bitwise(op, a, b))

\* builder.CreateAdd / CreateSub / CreateMul / CreateSDiv / CreateSRem /
\* CreateAnd / CreateOr and their float counterparts: two constants give
\* a constant and no instruction
CreateBinOp(g, op, lhs, rhs) ==
    IF g.err # "" THEN g
    ELSE IF IsConstantValue(lhs) /\ IsConstantValue(rhs) THEN
        IF lhs.v = "const" /\ rhs.v = "const" /\ lhs.ty = I32 /\ rhs.ty = I32
           /\ op \in {"add", "sub", "mul", "sdiv", "srem", "and", "or"}
        THEN Return(g, FoldBinOp(op, lhs.c, rhs.c))
        ELSE NotModelled(g)
    ELSE Emit(g, Inst(op, lhs.ty, <<lhs, rhs>>, <<>>, ""))

\* the value of an integer comparison
EvalPredicate(pred, a, b) ==
    CASE pred = "slt" -> a < b [] pred = "sgt" -> a > b
      [] pred = "sle" -> a <= b [] pred = "sge" -> a >= b
      [] pred = "eq" -> a = b [] pred = "ne" -> a # b

\* builder.CreateICmpXX(lhs, rhs)
CreateICmp(g, pred, lhs, rhs) ==
    IF g.err # "" THEN g
    ELSE IF IsConstantValue(lhs) /\ IsConstantValue(rhs) THEN
        IF lhs.v = "const" /\ rhs.v = "const" /\ lhs.ty = rhs.ty
        THEN Return(g, ConstantInt(I1, BoolInt(EvalPredicate(pred, lhs.c, rhs.c))))
        ELSE NotModelled(g)
    ELSE Emit(g, Inst("icmp", I1, <<lhs, rhs>>, <<>>, pred))

\* builder.CreateFCmpOXX(lhs, rhs)
CreateFCmp(g, pred, lhs, rhs) ==
    IF g.err # "" THEN g
    ELSE IF IsConstantValue(lhs) /\ IsConstantValue(rhs) THEN NotModelled(g)
    ELSE Emit(g, Inst("fcmp", I1, <<lhs, rhs>>, <<>>, pred))

\* builder.CreateSIToFP(val, float) / CreateFPToSI(val, i32)
CreateSIToFP(g, val) ==
    IF g.err # "" THEN g
    ELSE IF val.v = "const" THEN Return(g, ConstantFP(Frac(val.c, 1)))
    ELSE IF IsConstantValue(val) THEN NotModelled(g)
    ELSE Emit(g, Inst("sitofp", FloatTy, <<val>>, <<>>, ""))

CreateFPToSI(g, val) ==
    IF g.err # "" THEN g
    ELSE IF IsConstantValue(val) THEN NotModelled(g)
    ELSE Emit(g, Inst("fptosi", I32, <<val>>, <<>>, ""))

\* builder.CreateAlloca(type), CreateStore(val, ptr), CreateLoad(type, ptr)
CreateAlloca(g, type) == Emit(g, Inst("alloca", PtrTy, <<>>, <<>>, type))
CreateStore(g, val, ptr) == Emit(g, Inst("store", VoidTy, <<val, ptr>>, <<>>, ""))
CreateLoad(g, type, ptr) == Emit(g, Inst("load", type, <<ptr>>, <<>>, ""))

\* builder.CreateGEP(type, ptr, indices): a constant base with constant
\* indices gives a constant expression and no instruction
CreateGEP(g, type, ptr, indices) ==
    IF g.err # "" THEN g
    ELSE IF IsConstantValue(ptr) /\ \A i \in 1..Len(indices) : IsConstantValue(indices[i])
    THEN Return(g, Value("constgep", PtrTy, 0, <<ptr.c>> \o [i \in 1..Len(indices) |-> indices[i].c], type))
    ELSE Emit(g, Inst("gep", PtrTy, <<ptr>> \o indices, <<>>, type))

\* builder.CreateBr, CreateCondBr, CreateRet, CreateRetVoid, CreateCall
CreateBr(g, dest) == Emit(g, Inst("br", VoidTy, <<>>, <<dest>>, ""))
CreateCondBr(g, cond, ifTrue, ifFalse) ==
    Emit(g, Inst("condbr", VoidTy, <<cond>>, <<ifTrue, ifFalse>>, ""))
CreateRet(g, val) == Emit(g, Inst("ret", VoidTy, <<val>>, <<>>, ""))
CreateRetVoid(g) == Emit(g, Inst("ret", VoidTy, <<>>, <<>>, ""))
CreateCall(g, callee, args) ==
    Emit(g, Inst("call", g.module.functions[callee].retType, args, <<>>,
                 g.module.functions[callee].name))

(***************************************************************************)
(* IRGenerator::declareLibraryFunctions                                    *)
(***************************************************************************)
ExternalLinkage == "external"
InternalLinkage == "internal"

\* the thirteen declarations, in the order declareLibraryFunctions makes them
LibraryDeclarations ==
    << [name |-> "getint", ret |-> I32, params |-> <<>>, isVariadic |-> FALSE],
       [name |-> "getch", ret |-> I32, params |-> <<>>, isVariadic |-> FALSE],
       [name |-> "getfloat", ret |-> FloatTy, params |-> <<>>, isVariadic |-> FALSE],
       [name |-> "getarray", ret |-> I32, params |-> <<PtrTy>>, isVariadic |-> FALSE],
       [name |-> "getfarray", ret |-> I32, params |-> <<PtrTy>>, isVariadic |-> FALSE],
       [name |-> "putint", ret |-> VoidTy, params |-> <<I32>>, isVariadic |-> FALSE],
       [name |-> "putch", ret |-> VoidTy, params |-> <<I32>>, isVariadic |-> FALSE],
       [name |-> "putfloat", ret |-> VoidTy, params |-> <<FloatTy>>, isVariadic |-> FALSE],
       [name |-> "putarray", ret |-> VoidTy, params |-> <<I32, PtrTy>>, isVariadic |-> FALSE],
       [name |-> "putfarray", ret |-> VoidTy, params |-> <<I32, PtrTy>>, isVariadic |-> FALSE],
       [name |-> "putf", ret |-> VoidTy, params |-> <<PtrTy>>, isVariadic |-> TRUE],
       [name |-> "_sysy_starttime", ret |-> VoidTy, params |-> <<I32>>, isVariadic |-> FALSE],
       [name |-> "_sysy_stoptime", ret |-> VoidTy, params |-> <<I32>>, isVariadic |-> FALSE] >>

\* the keys under which a declaration is entered in libraryFunctions
LibraryKeys(name) ==
    CASE name = "_sysy_starttime" -> {"starttime", "_sysy_starttime"}
      [] name = "_sysy_stoptime" -> {"stoptime", "_sysy_stoptime"}
      [] OTHER -> {name}

\* the linkage every declareXxxFunction passes to Function::Create
LibraryLinkage == ExternalLinkage

\* Sequencing.  A lowering step takes the generator and gives the generator
\* after the step, and
\*     (CHOOSE out \in { rest(g1) : g1 \in {step(g)} } : TRUE)
\* is rest applied to the result of step: `g1 = step(g); rest(g1)`, with
\* step(g) evaluated once.  Nested, the statements of the code are the
\* bindings read from the bottom up, and the innermost expression is the
\* last statement.

\* one declareXxxFunction(): Function::Create, then the map entries
DeclareLibraryFunction(g, d) ==
    (CHOOSE out \in {
        [g1 EXCEPT !.libraryFunctions =
            [k \in LibraryKeys(d.name) |->
                [name |-> d.name, isVariadic |-> d.isVariadic]] @@ @]
      : g1 \in {FunctionCreate(g, d.ret, d.params, d.isVariadic, LibraryLinkage, d.name, 0)}} : TRUE)

RECURSIVE DeclareLibraryFrom(_, _)
DeclareLibraryFrom(g, i) ==
    IF i > Len(LibraryDeclarations) THEN g
    ELSE (CHOOSE out \in {
             DeclareLibraryFrom(g1, i + 1)
           : g1 \in {DeclareLibraryFunction(g, LibraryDeclarations[i])}} : TRUE)

\* void IRGenerator::declareLibraryFunctions()
DeclareLibraryFunctions(g) == IF g.err # "" THEN g ELSE DeclareLibraryFrom(g, 1)

\* bool IRGenerator::isLibraryFunction(name)
IsLibraryFunction(g, name) == name \in DOMAIN g.libraryFunctions

(***************************************************************************)
(* Lowering of expressions                                                 *)
(***************************************************************************)
\* llvm::Type* IRGenerator::getType(TypeAST*) where it does not throw: the
\* size of a vector type is a positive integer literal
GetType(typeAST) ==
    CASE typeAST.k = "INT" -> I32
      [] typeAST.k = "FLOAT" -> FloatTy
      [] typeAST.k = "VOID" -> VoidTy
      [] typeAST.k = "VECTOR" ->
             VectorTy(IF typeAST.elem = "INT" THEN I32 ELSE FloatTy, typeAST.size.v)

\* `while (currentType->isArrayTy()) { arrayDimensions++; currentType =
\*  currentType->getArrayElementType(); }`: the count and the final type
RECURSIVE ArrayDimensions(_)
ArrayDimensions(type) ==
    IF IsArrayTy(type) THEN 1 + ArrayDimensions(type.elem) ELSE 0

RECURSIVE ScalarElementType(_)
ScalarElementType(type) ==
    IF IsArrayTy(type) THEN ScalarElementType(type.elem) ELSE type

\* the dyn_cast<AllocaInst> / dyn_cast<GlobalVariable> chain that finds
\* the allocated type of a symbol's cell (NoType for the null Type*)
AllocatedTypeOf(varPtr) ==
    IF varPtr.v = "inst" /\ varPtr.c = "alloca" THEN varPtr.aty
    ELSE IF varPtr.v = "global" THEN varPtr.aty
    ELSE NoType

\* `isArray && allocatedType && allocatedType->isPointerTy()`
IsArrayParam(symInfo) ==
    /\ symInfo.isArray
    /\ AllocatedTypeOf(symInfo.value) # NoType
    /\ IsPointerTy(AllocatedTypeOf(symInfo.value))

\* a lowering of array parameters that reads the parameter's cell again
ArrayParamBase_Reload(g, symInfo) == CreateLoad(g, PtrTy, symInfo.value)

\* `llvm::Value* basePtr = loadedArrayPtr;`: the base of every access to
\* an array parameter is the pointer loaded in the entry block
ArrayParamBase(g, symInfo) == Return(g, symInfo.loadedArrayPtr)

\* the binary operators by group
ArithmeticOps == {"ADD", "SUB", "MUL", "DIV", "MOD"}
CompareOps == {"LT", "GT", "LE", "GE", "EQ", "NE"}
IntOpcode(op) ==
    CASE op = "ADD" -> "add" [] op = "SUB" -> "sub" [] op = "MUL" -> "mul"
      [] op = "DIV" -> "sdiv" [] op = "MOD" -> "srem"
FloatOpcode(op) ==
    CASE op = "ADD" -> "fadd" [] op = "SUB" -> "fsub" [] op = "MUL" -> "fmul"
      [] op = "DIV" -> "fdiv"
IntPredicate(op) ==
    CASE op = "LT" -> "slt" [] op = "GT" -> "sgt" [] op = "LE" -> "sle"
      [] op = "GE" -> "sge" [] op = "EQ" -> "eq" [] op = "NE" -> "ne"
FloatPredicate(op) ==
    CASE op = "LT" -> "olt" [] op = "GT" -> "ogt" [] op = "LE" -> "ole"
      [] op = "GE" -> "oge" [] op = "EQ" -> "oeq" [] op = "NE" -> "one"

RECURSIVE GenerateExprIn(_, _, _)
RECURSIVE GenerateExprsFrom(_, _, _, _)
RECURSIVE GenerateLVal(_, _)
RECURSIVE GenerateLValAddress(_, _)
RECURSIVE GenerateCallExpr(_, _)
RECURSIVE GenerateCallArgsFrom(_, _, _, _, _)

\* llvm::Value* IRGenerator::generateExpr(ExprAST*)
GenerateExpr(expr, g) == GenerateExprIn(expr, g, FALSE)

\* llvm::Value* IRGenerator::generateCondExpr(ExprAST*)
GenerateCondExpr(expr, g) == GenerateExprIn(expr, g, TRUE)

\* `for (idx : indices) indices.push_back(generateExpr(idx))`: the values
\* of es[i..] appended to acc; the vector is in val
GenerateExprsFrom(es, i, acc, g) ==
    IF g.err # "" THEN g
    ELSE IF i > Len(es) THEN Return(g, acc)
    ELSE (CHOOSE out \in {
             GenerateExprsFrom(es, i + 1, Append(acc, g1.val), g1)
           : g1 \in {GenerateExpr(es[i], g)}} : TRUE)

\* the switch on the binary operator, after both operands are lowered
\* and converted; inCond is TRUE in generateCondExpr
BinarySwitch(g, op, lhs, rhs, isFloat, inCond) ==
    IF op \in ArithmeticOps THEN
        IF ~isFloat THEN CreateBinOp(g, IntOpcode(op), lhs, rhs)
        ELSE IF op = "MOD" THEN Return(g, ConstantFP(FZero))
        ELSE CreateBinOp(g, FloatOpcode(op), lhs, rhs)
    ELSE IF op \in CompareOps THEN
        IF isFloat THEN CreateFCmp(g, FloatPredicate(op), lhs, rhs)
        ELSE CreateICmp(g, IntPredicate(op), lhs, rhs)
    ELSE IF op = "AND" THEN
        IF inCond THEN CreateBinOp(g, "and", lhs, rhs)
        ELSE Throw(g, "Logical AND operator cannot be used in expressions")
    ELSE IF op = "OR" THEN
        IF inCond THEN CreateBinOp(g, "or", lhs, rhs)
        ELSE Throw(g, "Logical OR operator cannot be used in expressions")
    ELSE Throw(g, "Unknown binary operator")

\* the binary case: operands left to right, int-to-float conversion of
\* an integer operand when the other is not an integer, then the switch
GenerateBinary(expr, g, inCond) ==
    (CHOOSE out \in {
        (CHOOSE out \in {
            LET lhs == g1.val
                rhs == g2.val
                lhsIsInt == IsIntegerTy(lhs.ty)
                rhsIsInt == IsIntegerTy(rhs.ty)
            IN  CASE g2.err # "" -> g2
                  [] g2.err = "" /\ lhsIsInt /\ rhsIsInt ->
                         BinarySwitch(g2, expr.op, lhs, rhs, FALSE, inCond)
                  [] OTHER ->
                         (CHOOSE out \in {
                             (CHOOSE out \in {
                                 IF g4.err # "" THEN g4
                                 ELSE BinarySwitch(g4, expr.op, g3.val, g4.val, TRUE, inCond)
                               : g4 \in {IF rhsIsInt THEN CreateSIToFP(g3, rhs) ELSE Return(g3, rhs)}} : TRUE)
                           : g3 \in {IF lhsIsInt THEN CreateSIToFP(g2, lhs) ELSE Return(g2, lhs)}} : TRUE)
          : g2 \in {GenerateExprIn(expr.rhs, g1, inCond)}} : TRUE)
      : g1 \in {GenerateExprIn(expr.lhs, g, inCond)}} : TRUE)

\* the unary case
GenerateUnary(expr, g, inCond) ==
    (CHOOSE out \in {
        LET operand == g1.val
        IN  IF g1.err # "" THEN g1
            ELSE IF expr.op = "PLUS" THEN g1
            ELSE IF expr.op = "MINUS" THEN
                IF IsFloatTy(operand.ty)
                THEN (IF IsConstantValue(operand) THEN NotModelled(g1)
                      ELSE Emit(g1, Inst("fneg", FloatTy, <<operand>>, <<>>, "")))
                ELSE IF IsIntegerTy(operand.ty)
                THEN CreateBinOp(g1, "sub", ConstantInt(operand.ty, 0), operand)
                ELSE NotModelled(g1)
            ELSE IF expr.op = "NOT" THEN
                IF ~inCond
                THEN Throw(g1, "Logical NOT operator cannot be used in expressions")
                ELSE IF IsIntegerTy(operand.ty)
                THEN CreateICmp(g1, "eq", operand, ConstantInt(operand.ty, 0))
                ELSE NotModelled(g1)
            ELSE Throw(g1, "Unknown unary operator")
      : g1 \in {GenerateExprIn(expr.operand, g, inCond)}} : TRUE)

GenerateExprIn(expr, g, inCond) ==
    IF g.err # "" THEN g
    ELSE CASE expr.k = "Null" -> Throw(g, "Expression is null")
           [] expr.k = "IntConst" -> Return(g, ConstantInt(I32, expr.v))
           [] expr.k = "FloatConst" -> Return(g, ConstantFP(FloatValue(expr)))
           [] expr.k = "StringLiteral" /\ ~inCond -> NotModelled(g)
           [] expr.k = "LVal" -> GenerateLVal(expr, g)
           [] expr.k = "Call" -> GenerateCallExpr(expr, g)
           [] expr.k = "Binary" -> GenerateBinary(expr, g, inCond)
           [] expr.k = "Unary" -> GenerateUnary(expr, g, inCond)
           [] OTHER -> Throw(g, "Unsupported expression type")

\* the access to an array parameter, shared by generateLVal (load = TRUE:
\* the element is loaded) and generateLValAddress (load = FALSE)
ArrayParamAccess(lval, g, symInfo, load) ==
    IF symInfo.loadedArrayPtr = NullValue
    THEN Throw(g, "Array parameter pointer not preloaded")
    ELSE (CHOOSE out \in {
             LET basePtr == g1.val
                 baseType == symInfo.arrayElementType
             IN  IF lval.indices = <<>> THEN g1
                 ELSE IF Len(lval.indices) > ArrayDimensions(baseType) + 1
                 THEN Throw(g1, "Array index count exceeds array dimensions")
                 ELSE (CHOOSE out \in {
                          (CHOOSE out \in {
                              IF load THEN CreateLoad(g3, ScalarElementType(baseType), g3.val)
                              ELSE g3
                            : g3 \in {CreateGEP(g2, baseType, basePtr, g2.val)}} : TRUE)
                        : g2 \in {GenerateExprsFrom(lval.indices, 1, <<>>, g1)}} : TRUE)
           : g1 \in {ArrayParamBase(g, symInfo)}} : TRUE)

\* the access to an element of a true array
ArrayAccess(lval, g, symInfo, load) ==
    LET allocatedType == AllocatedTypeOf(symInfo.value)
    IN  IF allocatedType = NoType
        THEN Throw(g, "Unable to determine variable type")
        ELSE IF Len(lval.indices) > ArrayDimensions(allocatedType)
        THEN Throw(g, "Array index count exceeds array dimensions")
        ELSE (CHOOSE out \in {
                 (CHOOSE out \in {
                     IF load THEN CreateLoad(g2, ScalarElementType(allocatedType), g2.val)
                     ELSE g2
                   : g2 \in {CreateGEP(g1, allocatedType, symInfo.value, g1.val)}} : TRUE)
               : g1 \in {GenerateExprsFrom(lval.indices, 1, <<ConstantInt(I32, 0)>>, g)}} : TRUE)

\* llvm::Value* IRGenerator::generateLVal(LValExprAST*): the value.  The
\* test that the preloaded pointer belongs to the current function is
\* left out: values carry no function, and frames of a finished function
\* are popped before the next one starts.
GenerateLVal(lval, g) ==
    IF g.err # "" THEN g
    ELSE LET symInfo == LookupSymbol(g, lval.name)
         IN 
             IF symInfo = Nullopt THEN Throw(g, "Variable not defined")
             ELSE IF IsArrayParam(symInfo) THEN ArrayParamAccess(lval, g, symInfo, TRUE)
             ELSE IF lval.indices # <<>> /\ IsVectorTy(AllocatedTypeOf(symInfo.value))
             THEN NotModelled(g)
             ELSE IF lval.indices # <<>> THEN ArrayAccess(lval, g, symInfo, TRUE)
             ELSE IF AllocatedTypeOf(symInfo.value) = NoType
             THEN Throw(g, "Unable to determine load type")
             ELSE IF symInfo.isArray
             THEN Return(g, symInfo.value)
             ELSE CreateLoad(g, AllocatedTypeOf(symInfo.value), symInfo.value)

\* llvm::Value* IRGenerator::generateLValAddress(LValExprAST*): the address
GenerateLValAddress(lval, g) ==
    IF g.err # "" THEN g
    ELSE LET symInfo == LookupSymbol(g, lval.name)
         IN 
             IF symInfo = Nullopt THEN Throw(g, "Variable not defined")
             ELSE IF symInfo.isConst THEN Throw(g, "Cannot assign to constant")
             ELSE IF IsArrayParam(symInfo) THEN ArrayParamAccess(lval, g, symInfo, FALSE)
             ELSE IF lval.indices # <<>> /\ IsVectorTy(AllocatedTypeOf(symInfo.value))
             THEN NotModelled(g)
             ELSE IF lval.indices # <<>> THEN ArrayAccess(lval, g, symInfo, FALSE)
             ELSE Return(g, symInfo.value)

\* the conversion of one argument of a call to a callee that is not
\* variadic: argValue is in g.val, expectedType is the parameter's type
ConvertArgument(arg, g, expectedType) ==
    LET argValue == g.val
    IN  IF g.err # "" \/ argValue.ty = expectedType THEN g
        ELSE IF IsPointerTy(expectedType) THEN
            IF arg.k = "LVal" THEN GenerateLValAddress(arg, g)
            ELSE Throw(g, "Type mismatch in function argument")
        ELSE IF IsIntegerTy(expectedType) /\ IsFloatTy(argValue.ty)
        THEN CreateFPToSI(g, argValue)
        ELSE IF IsFloatTy(expectedType) /\ IsIntegerTy(argValue.ty)
        THEN CreateSIToFP(g, argValue)
        ELSE Throw(g, "Type mismatch in function argument")

\* one argument of a call to a variadic callee (putf): the first must be
\* a string pointer, a float is extended to double
VariadicArgument(g, i) ==
    LET argValue == g.val
    IN  IF g.err # "" THEN g
        ELSE IF i = 1 /\ ~IsPointerTy(argValue.ty)
        THEN Throw(g, "First argument to putf must be a string")
        ELSE IF IsFloatTy(argValue.ty)
        THEN Emit(g, Inst("fpext", [t |-> "double"], <<argValue>>, <<>>, ""))
        ELSE g

\* the loop over the arguments of a call: the converted values of
\* args[i..] appended to acc
GenerateCallArgsFrom(args, i, acc, g, callee) ==
    IF g.err # "" THEN g
    ELSE IF i > Len(args) THEN Return(g, acc)
    ELSE (CHOOSE out \in {
             (CHOOSE out \in {
                 GenerateCallArgsFrom(args, i + 1, Append(acc, g2.val), g2, callee)
               : g2 \in {IF ~callee.isVarArg
                         THEN (IF i <= Len(callee.paramTypes)
                               THEN ConvertArgument(args[i], g1, callee.paramTypes[i])
                               ELSE g1)
                         ELSE VariadicArgument(g1, i)}} : TRUE)
           : g1 \in {GenerateExpr(args[i], g)}} : TRUE)

\* llvm::Value* IRGenerator::generateCallExpr(CallExprAST*).  vsum takes
\* a vector, and no value of the model has a vector type.  The line
\* number passed to _sysy_starttime / _sysy_stoptime is not kept.
GenerateCallExpr(expr, g) ==
    IF g.err # "" THEN g
    ELSE IF expr.callee = "vsum" THEN
        IF Len(expr.args) # 1 THEN Throw(g, "vsum expects exactly one argument")
        ELSE Throw(GenerateExpr(expr.args[1], g), "vsum expects a vector argument")
    ELSE LET isTimeCall == expr.callee \in {"starttime", "stoptime"}
             actualFuncName ==
                 CASE expr.callee = "starttime" -> "_sysy_starttime"
                   [] expr.callee = "stoptime" -> "_sysy_stoptime"
                   [] OTHER -> expr.callee
             calleeFunc == GetFunction(g.module, actualFuncName)
         IN  IF calleeFunc = 0 THEN
                 IF IsLibraryFunction(g, expr.callee)
                 THEN Throw(g, "Library function not properly declared")
                 ELSE Throw(g, "Unknown function referenced")
             ELSE LET callee == g.module.functions[calleeFunc]
                      isVariadic == IsLibraryFunction(g, expr.callee)
                                        /\ g.libraryFunctions[expr.callee].isVariadic
                  IN  IF ~isTimeCall /\ isVariadic
                         /\ Len(callee.paramTypes) > Len(expr.args)
                      THEN Throw(g, "Insufficient arguments passed to variadic function")
                      ELSE IF ~isTimeCall /\ ~isVariadic
                              /\ Len(callee.paramTypes) # Len(expr.args)
                      THEN Throw(g, "Incorrect number of arguments passed to function")
                      ELSE IF isTimeCall
                      THEN CreateCall(g, calleeFunc, <<ConstantInt(I32, 0)>>)
                      ELSE (CHOOSE out \in {
                               IF g1.err # "" THEN g1
                               ELSE CreateCall(g1, calleeFunc, g1.val)
                             : g1 \in {GenerateCallArgsFrom(expr.args, 1, <<>>, g,
                                           [isVarArg |-> isVariadic,
                                            paramTypes |-> callee.paramTypes])}} : TRUE)

(***************************************************************************)
(* Lowering of declarations, statements and blocks                         *)
(***************************************************************************)
\* `builder.GetInsertBlock()->getTerminator()` is not null
HasTerminator(g) == GetTerminator(InsertBlock(g)) # NullValue

\* `if (!builder.GetInsertBlock()->getTerminator()) builder.CreateBr(bb)`
BrIfOpen(g, bb) ==
    IF g.err # "" THEN g
    ELSE IF HasTerminator(g) THEN g ELSE CreateBr(g, bb)

\* llvm::ConstantAggregateZero::get(type); Constant::getNullValue(type)
ConstantAggregateZero(type) == [v |-> "zeroinit", ty |-> type]
GetNullValue(type) ==
    CASE type = I32 \/ type = I1 -> ConstantInt(type, 0)
      [] type = FloatTy -> ConstantFP(FZero)
      [] OTHER -> ConstantAggregateZero(type)

\* Constant::isNullValue()
IsNullValue(c) ==
    \/ c.v = "zeroinit"
    \/ c.v = "const" /\ c.c = 0
    \/ c.v = "constfp" /\ c.c = FZero

\* llvm::ConstantArray::get(type, elems): an array of null values is the
\* ConstantAggregateZero of the type
ConstantArrayGet(type, elems) ==
    IF \A i \in 1..Len(elems) : IsNullValue(elems[i])
    THEN ConstantAggregateZero(type)
    ELSE [v |-> "constarray", ty |-> type, elems |-> elems]

\* isa<llvm::Constant>(value)
IsaConstant(val) ==
    IsConstantValue(val) \/ val.v \in {"zeroinit", "constarray", "constgep"}

\* the initializer of a global variable that has none (nullptr)
NoInitializer == [v |-> "null"]

\* new llvm::GlobalVariable(*module, type, isConstant, ExternalLinkage,
\* nullptr, name); the variable is in val
NewGlobalVariable(g, type, isConstant, name) ==
    IF g.err # "" THEN g
    ELSE [g EXCEPT
            !.module.globals = Append(@,
                [name |-> UniqueName(g.module, name), srcName |-> name,
                 type |-> type, isConstant |-> isConstant,
                 linkage |-> ExternalLinkage, init |-> NoInitializer]),
            !.module.lastUnique = UniqueCount(g.module, name),
            !.val = GlobalVariable(UniqueName(g.module, name), type)]

\* the llvm::GlobalVariable of the module that a value refers to
GlobalOf(g, globalVar) ==
    g.module.globals[CHOOSE i \in 1..Len(g.module.globals) :
                         g.module.globals[i].name = globalVar.c]

\* globalVar->setInitializer(init)
SetInitializer(g, globalVar, init) ==
    IF g.err # "" THEN g
    ELSE [g EXCEPT !.module.globals =
             [i \in 1..Len(@) |->
                 IF @[i].name = globalVar.c THEN [@[i] EXCEPT !.init = init]
                 ELSE @[i]]]

\* the LValExprAST case that evaluateConstExpr and
\* generateExprForArraySize share: the name of a global constant with a
\* non-negative 32-bit integer initializer; val is that initializer
ArraySizeOfName(expr, g) ==
    LET symOpt == LookupSymbol(g, expr.name)
    IN  IF symOpt = Nullopt THEN Throw(g, "Variable not defined")
        ELSE IF symOpt.value.v # "global"
        THEN Throw(g, "Array size must be a constant")
        ELSE LET globalVar == GlobalOf(g, symOpt.value)
             IN  IF ~globalVar.isConstant
                 THEN Throw(g, "Array size must be a constant")
                 ELSE IF globalVar.init = NoInitializer
                 THEN Throw(g, "Array size must be a constant with value")
                 ELSE IF globalVar.init.v # "const"
                 THEN Throw(g, "Array size must be an integer constant")
                 ELSE IF globalVar.init.c < 0
                 THEN Throw(g, "Array size must be non-negative")
                 ELSE Return(g, globalVar.init)

\* the process is ended by a signal
SignalMsg == "signal"
\* `return lhs op rhs;` on int: the result is in val
ReturnInt(g, r) == IF r.trap THEN Throw(g, SignalMsg) ELSE Return(g, r.v)

\* the switch of evaluateConstExpr on a binary operator whose operands
\* are ignored
EvaluateConstBinary_NoZeroTest(op, lhs, rhs, g) ==
    CASE op = "ADD" -> ReturnInt(g, SignedArith(lhs + rhs))
      [] op = "SUB" -> ReturnInt(g, SignedArith(lhs - rhs))
      [] op = "MUL" -> ReturnInt(g, SignedArith(lhs * rhs))
      [] op \in {"DIV", "MOD"} -> Return(g, 0)
      [] OTHER -> Throw(g, "Unsupported operator in constant expression")

\* the switch of evaluateConstExpr on the operator of a binary expression
EvaluateConstBinary(op, lhs, rhs, g) ==
    CASE op = "ADD" -> ReturnInt(g, SignedArith(lhs + rhs))
      [] op = "SUB" -> ReturnInt(g, SignedArith(lhs - rhs))
      [] op = "MUL" -> ReturnInt(g, SignedArith(lhs * rhs))
      [] op = "DIV" -> IF rhs = 0 THEN Throw(g, "Division by zero in constant expression")
                       ELSE ReturnInt(g, SignedDiv(lhs, rhs))
      [] op = "MOD" -> IF rhs = 0 THEN Throw(g, "Modulo by zero in constant expression")
                       ELSE ReturnInt(g, SignedRem(lhs, rhs))
      [] OTHER -> Throw(g, "Unsupported operator in constant expression")

\* int IRGenerator::evaluateConstExpr(ExprAST*); the int is in val
RECURSIVE EvaluateConstExpr(_, _)
EvaluateConstExpr(expr, g) ==
    IF g.err # "" THEN g
    ELSE CASE expr.k = "Null" -> Throw(g, "Expression is null")
           [] expr.k = "IntConst" ->
                  IF expr.v < 0 THEN Throw(g, "Array size must be non-negative")
                  ELSE Return(g, expr.v)
           [] expr.k = "LVal" ->
                  (CHOOSE out \in {
                      IF g1.err # "" THEN g1 ELSE Return(g1, g1.val.c)
                    : g1 \in {ArraySizeOfName(expr, g)}} : TRUE)
           [] expr.k = "Binary" ->
                  (CHOOSE out \in {
                      (CHOOSE out \in {
                          IF g2.err # "" THEN g2
                          ELSE EvaluateConstBinary(expr.op, g1.val, g2.val, g2)
                        : g2 \in {EvaluateConstExpr(expr.rhs, g1)}} : TRUE)
                    : g1 \in {EvaluateConstExpr(expr.lhs, g)}} : TRUE)
           [] expr.k = "Unary" ->
                  (CHOOSE out \in {
                      IF g1.err # "" THEN g1
                      ELSE CASE expr.op = "PLUS" -> Return(g1, g1.val)
                             [] expr.op = "MINUS" -> ReturnInt(g1, SignedArith(0 - g1.val))
                             [] OTHER -> Throw(g1, "Unsupported unary operator in constant expression")
                    : g1 \in {EvaluateConstExpr(expr.operand, g)}} : TRUE)
           [] OTHER -> Throw(g, "Array size must be a constant integer expression")

\* llvm::Value* IRGenerator::generateExprForArraySize(ExprAST*)
GenerateExprForArraySize(expr, g) ==
    IF g.err # "" THEN g
    ELSE CASE expr.k = "Null" -> Throw(g, "Expression is null")
           [] expr.k = "IntConst" ->
                  IF expr.v < 0 THEN Throw(g, "Array size must be non-negative")
                  ELSE Return(g, ConstantInt(I32, expr.v))
           [] expr.k = "LVal" -> ArraySizeOfName(expr, g)
           [] expr.k \in {"Binary", "Unary"} ->
                  (CHOOSE out \in {
                      IF g1.err # "" THEN g1 ELSE Return(g1, ConstantInt(I32, g1.val))
                    : g1 \in {EvaluateConstExpr(expr, g)}} : TRUE)
           [] OTHER -> Throw(g, "Array size must be a constant integer expression")
\* the loop over getArraySizes() of a definition: a variable's sizes go
\* through generateExprForArraySize, a constant's through generateExpr;
\* the vector arraySizes is in val
RECURSIVE ArraySizesFrom(_, _, _, _, _)
ArraySizesFrom(sizes, i, acc, isConstDecl, g) ==
    IF g.err # "" THEN g
    ELSE IF i > Len(sizes) THEN Return(g, acc)
    ELSE (CHOOSE out \in {
             IF g1.err # "" THEN g1
             ELSE IF g1.val.v # "const"
             THEN Throw(g1, "Array size must be a constant expression")
             ELSE IF g1.val.c < 0
             THEN Throw(g1, "Array size must be non-negative")
             ELSE ArraySizesFrom(sizes, i + 1, Append(acc, g1.val.c), isConstDecl, g1)
           : g1 \in {IF isConstDecl THEN GenerateExpr(sizes[i], g)
                     ELSE GenerateExprForArraySize(sizes[i], g)}} : TRUE)

\* `for (it = arraySizes.rbegin(); ...) elementType =
\*  llvm::ArrayType::get(elementType, *it)`
RECURSIVE ArrayTypeOver(_, _)
ArrayTypeOver(elementType, arraySizes) ==
    IF arraySizes = <<>> THEN elementType
    ELSE ArrayTy(ArrayTypeOver(elementType, Tail(arraySizes)), arraySizes[1])

\* `if (val->getType() != type) { FPToSI / SIToFP / throw }` of the
\* initializers of local variables; the value is in g.val
ConvertInitializer(g, type, msg) ==
    IF g.err # "" \/ g.val.ty = type THEN g
    ELSE IF IsIntegerTy(type) /\ IsFloatTy(g.val.ty) THEN CreateFPToSI(g, g.val)
    ELSE IF IsFloatTy(type) /\ IsIntegerTy(g.val.ty) THEN CreateSIToFP(g, g.val)
    ELSE Throw(g, msg)

RECURSIVE BuildArrayInit(_, _, _, _, _)
RECURSIVE BuildArrayInitFrom(_, _, _, _, _, _, _)

\* the lambda buildArrayInit(type, dims, initVals, index) of
\* generateInitVal; index counts from 0 and is passed by reference: val is
\* the constant built (c) with the index after the call.  At a leaf, type
\* is the captured elementType.
BuildArrayInit(type, dims, initVals, index, g) ==
    IF g.err # "" THEN g
    ELSE IF dims # <<>> THEN BuildArrayInitFrom(type, dims, initVals, index, 0, <<>>, g)
    ELSE IF index < Len(initVals) /\ initVals[index + 1].k = "ExprInit" THEN
        (CHOOSE out \in {
            IF g1.err # "" THEN g1
            ELSE IF ~IsaConstant(g1.val)
            THEN Throw(g1, "Global variable initializer must be a constant")
            ELSE IF g1.val.ty # type
            THEN Throw(g1, "Type mismatch in global variable initializer")
            ELSE Return(g1, [c |-> g1.val, index |-> index + 1])
          : g1 \in {GenerateExpr(initVals[index + 1].expr, g)}} : TRUE)
    ELSE Return(g, [c |-> GetNullValue(type), index |-> index])

\* its loop `for (int i = 0; i < currentDimSize; i++)`
BuildArrayInitFrom(type, dims, initVals, index, i, subInits, g) ==
    IF g.err # "" THEN g
    ELSE IF i >= dims[1]
    THEN Return(g, [c |-> ConstantArrayGet(type, subInits), index |-> index])
    ELSE (CHOOSE out \in {
             IF g1.err # "" THEN g1
             ELSE BuildArrayInitFrom(type, dims, initVals, g1.val.index, i + 1,
                                     Append(subInits, g1.val.c), g1)
           : g1 \in {IF index < Len(initVals) THEN
                         IF initVals[index + 1].k = "ListInit" THEN
                             (CHOOSE out \in {
                                 Return(g0, [c |-> g0.val.c, index |-> index + 1])
                               : g0 \in {BuildArrayInit(type.elem, Tail(dims), initVals[index + 1].vals, 0, g)}} : TRUE)
                         ELSE BuildArrayInit(type.elem, Tail(dims), initVals, index, g)
                     ELSE (CHOOSE out \in {
                              Return(g0, [c |-> g0.val.c, index |-> index])
                            : g0 \in {BuildArrayInit(type.elem, Tail(dims), <<>>, 0, g)}} : TRUE)}} : TRUE)

RECURSIVE InitArrayElements(_, _, _, _, _, _)
RECURSIVE InitArrayElementsFrom(_, _, _, _, _, _, _)

\* the lambda initArrayElements(basePtr, type, dims, initVals, index) of
\* generateInitVal; val is the index after the call
InitArrayElements(basePtr, type, dims, initVals, index, g) ==
    IF g.err # "" THEN g
    ELSE IF dims # <<>> THEN InitArrayElementsFrom(basePtr, type, dims, initVals, index, 0, g)
    ELSE IF index < Len(initVals) /\ initVals[index + 1].k = "ExprInit" THEN
        (CHOOSE out \in {
            (CHOOSE out \in {
                (CHOOSE out \in {
                    Return(g3, index + 1)
                  : g3 \in {CreateStore(g2, g2.val, basePtr)}} : TRUE)
              : g2 \in {ConvertInitializer(g1, type, "Type mismatch in array initializer")}} : TRUE)
          : g1 \in {GenerateExpr(initVals[index + 1].expr, g)}} : TRUE)
    ELSE Return(g, index)

InitArrayElementsFrom(basePtr, type, dims, initVals, index, i, g) ==
    IF g.err # "" THEN g
    ELSE IF i >= dims[1] THEN Return(g, index)
    ELSE (CHOOSE out \in {
             (CHOOSE out \in {
                 IF g2.err # "" THEN g2
                 ELSE InitArrayElementsFrom(basePtr, type, dims, initVals, g2.val, i + 1, g2)
               : g2 \in {IF index < Len(initVals) THEN
                             IF initVals[index + 1].k = "ListInit" THEN
                                 (CHOOSE out \in {
                                     Return(g0, index + 1)
                                   : g0 \in {InitArrayElements(g1.val, type.elem, Tail(dims), initVals[index + 1].vals, 0, g1)}} : TRUE)
                             ELSE InitArrayElements(g1.val, type.elem, Tail(dims), initVals, index, g1)
                         ELSE (CHOOSE out \in {
                                  Return(g0, index)
                                : g0 \in {InitArrayElements(g1.val, type.elem, Tail(dims), <<>>, 0, g1)}} : TRUE)}} : TRUE)
           : g1 \in {CreateGEP(g, type, basePtr, <<ConstantInt(I32, 0), ConstantInt(I32, i)>>)}} : TRUE)

\* the vector path of generateInitVal: a vector value, or a list of at
\* most vecSize elements.  The list of a local vector is not followed.
RECURSIVE VectorElementsFrom(_, _, _, _, _)
VectorElementsFrom(initVals, i, vecType, elements, g) ==
    IF g.err # "" THEN g
    ELSE IF i >= vecType.n THEN Return(g, elements)
    ELSE IF i >= Len(initVals)
    THEN VectorElementsFrom(initVals, i + 1, vecType,
                            Append(elements, GetNullValue(vecType.elem)), g)
    ELSE IF initVals[i + 1].k # "ExprInit"
    THEN Throw(g, "Vector initializer elements must be expressions")
    ELSE (CHOOSE out \in {
             IF g1.err # "" THEN g1
             ELSE IF ~IsaConstant(g1.val)
             THEN Throw(g1, "Global vector initializer must be a constant")
             ELSE (CHOOSE out \in {
                      VectorElementsFrom(initVals, i + 1, vecType,
                                         Append(elements, g2.val), g2)
                    : g2 \in {ConvertInitializer(g1, vecType.elem, "Type mismatch in vector initializer")}} : TRUE)
           : g1 \in {GenerateExpr(initVals[i + 1].expr, g)}} : TRUE)

GenerateVectorInitVal(initVal, ptr, vecType, g) ==
    LET isGlobal == ptr.v = "global"
    IN  CASE initVal.k = "ExprInit" ->
                 (CHOOSE out \in {
                     IF g1.err # "" THEN g1
                     ELSE IF g1.val.ty # vecType
                     THEN Throw(g1, "Vector initializer must be a vector value")
                     ELSE IF ~isGlobal THEN CreateStore(g1, g1.val, ptr)
                     ELSE IF ~IsaConstant(g1.val)
                     THEN Throw(g1, "Global vector initializer must be a constant")
                     ELSE SetInitializer(g1, ptr, g1.val)
                   : g1 \in {GenerateExpr(initVal.expr, g)}} : TRUE)
          [] initVal.k = "ListInit" ->
                 IF Len(initVal.vals) > vecType.n
                 THEN Throw(g, "Vector initializer has too many elements")
                 ELSE IF ~isGlobal THEN NotModelled(g)
                 ELSE (CHOOSE out \in {
                          IF g1.err # "" THEN g1
                          ELSE SetInitializer(g1, ptr,
                                   [v |-> "constvector", ty |-> vecType, elems |-> g1.val])
                        : g1 \in {VectorElementsFrom(initVal.vals, 0, vecType, <<>>, g)}} : TRUE)
          [] OTHER -> Throw(g, "Unknown vector initializer type")

\* void IRGenerator::generateInitVal(InitValAST*, llvm::Value* ptr, int
\* dimensions, const std::vector<int>& sizes).  ptr is an alloca or a
\* global variable.
GenerateInitVal(initVal, ptr, sizes, g) ==
    LET targetType == AllocatedTypeOf(ptr)
        isGlobal == ptr.v = "global"
    IN  IF g.err # "" THEN g
        ELSE IF targetType = NoType THEN Throw(g, "Unable to determine pointer element type")
        ELSE IF IsVectorTy(targetType)
        THEN GenerateVectorInitVal(initVal, ptr, targetType, g)
        ELSE CASE initVal.k = "ExprInit" ->
                 (CHOOSE out \in {
                     IF g1.err # "" THEN g1
                     ELSE IF isGlobal /\ ~IsaConstant(g1.val)
                     THEN Throw(g1, "Global variable initializer must be a constant")
                     ELSE IF isGlobal /\ g1.val.ty # targetType
                     THEN Throw(g1, "Type mismatch in global variable initializer")
                     ELSE IF isGlobal THEN SetInitializer(g1, ptr, g1.val)
                     ELSE (CHOOSE out \in {
                              CreateStore(g2, g2.val, ptr)
                            : g2 \in {ConvertInitializer(g1, targetType, "Type mismatch in variable initializer")}} : TRUE)
                   : g1 \in {GenerateExpr(initVal.expr, g)}} : TRUE)
               [] initVal.k = "ListInit" /\ initVal.vals = <<>> ->
                   IF ~isGlobal THEN CreateStore(g, GetNullValue(targetType), ptr)
                   ELSE IF sizes = <<>> THEN SetInitializer(g, ptr, GetNullValue(targetType))
                   ELSE IF Len(sizes) = 1
                   THEN SetInitializer(g, ptr, ConstantAggregateZero(targetType))
                   ELSE NotModelled(g)
               [] initVal.k = "ListInit" /\ initVal.vals # <<>> ->
                   IF sizes = <<>> THEN Throw(g, "Scalar initializer cannot be a list")
                   ELSE IF isGlobal THEN
                       (CHOOSE out \in {
                           IF g1.err # "" THEN g1 ELSE SetInitializer(g1, ptr, g1.val.c)
                         : g1 \in {BuildArrayInit(targetType, sizes, initVal.vals, 0, g)}} : TRUE)
                   ELSE InitArrayElements(ptr, targetType, sizes, initVal.vals, 0, g)
               [] OTHER -> Throw(g, "Unknown initializer type")

\* the body of the loop of generateDecl over the definitions of a
\* variable declaration
GenerateVarDef(def, varType, g) ==
    IF g.err # "" THEN g
    ELSE IF IsVectorTy(varType) /\ def.sizes # <<>>
    THEN Throw(g, "Vector type cannot be combined with array dimensions")
    ELSE (CHOOSE out \in {
             LET arraySizes == g1.val
                 elementType == ArrayTypeOver(varType, arraySizes)
             IN  IF g1.err # "" THEN g1
                 ELSE IF g1.currentFunction = 0 THEN
                     IF LookupSymbol(g1, def.name) # Nullopt
                     THEN Throw(g1, "Redeclaration of global variable")
                     ELSE (CHOOSE out \in {
                              (CHOOSE out \in {
                                  AddSymbol(g3, def.name,
                                            SymbolInfo(g2.val, FALSE, arraySizes # <<>>, NoType))
                                : g3 \in {IF def.init.k # "Null"
                                          THEN GenerateInitVal(def.init, g2.val, arraySizes, g2)
                                          ELSE SetInitializer(g2, g2.val, ConstantAggregateZero(elementType))}} : TRUE)
                            : g2 \in {NewGlobalVariable(g1, elementType, FALSE, def.name)}} : TRUE)
                 ELSE (CHOOSE out \in {
                          (CHOOSE out \in {
                              AddSymbol(g3, def.name,
                                        SymbolInfo(g2.val, FALSE, arraySizes # <<>>, NoType))
                            : g3 \in {IF def.init.k # "Null"
                                      THEN GenerateInitVal(def.init, g2.val, arraySizes, g2)
                                      ELSE g2}} : TRUE)
                        : g2 \in {CreateAlloca(g1, elementType)}} : TRUE)
           : g1 \in {ArraySizesFrom(def.sizes, 1, <<>>, FALSE, g)}} : TRUE)

\* the body of the loop of generateDecl over the definitions of a constant
\* declaration: a constant is a global variable of the module wherever it
\* is declared
GenerateConstDef(def, constType, g) ==
    IF g.err # "" THEN g
    ELSE IF IsVectorTy(constType) /\ def.sizes # <<>>
    THEN Throw(g, "Vector type cannot be combined with array dimensions")
    ELSE (CHOOSE out \in {
             LET arraySizes == g1.val
                 elementType == ArrayTypeOver(constType, arraySizes)
             IN  IF g1.err # "" THEN g1
                 ELSE IF LookupSymbol(g1, def.name) # Nullopt
                 THEN Throw(g1, "Redeclaration of global constant")
                 ELSE (CHOOSE out \in {
                          (CHOOSE out \in {
                              AddSymbol(g3, def.name,
                                        SymbolInfo(g2.val, TRUE, arraySizes # <<>>, NoType))
                            : g3 \in {IF def.init.k # "Null"
                                      THEN GenerateInitVal(def.init, g2.val, arraySizes, g2)
                                      ELSE Throw(g2, "Constant must have an initializer")}} : TRUE)
                        : g2 \in {NewGlobalVariable(g1, elementType, TRUE, def.name)}} : TRUE)
           : g1 \in {ArraySizesFrom(def.sizes, 1, <<>>, TRUE, g)}} : TRUE)

RECURSIVE GenerateVarDefsFrom(_, _, _, _, _)
GenerateVarDefsFrom(defs, i, type, isConstDecl, g) ==
    IF g.err # "" \/ i > Len(defs) THEN g
    ELSE (CHOOSE out \in {
             GenerateVarDefsFrom(defs, i + 1, type, isConstDecl, g1)
           : g1 \in {IF isConstDecl THEN GenerateConstDef(defs[i], type, g)
                     ELSE GenerateVarDef(defs[i], type, g)}} : TRUE)

\* the throws of getType(TypeAST*) on a vector type
GetTypeThrows(typeAST, g) ==
    IF g.err # "" \/ typeAST.k # "VECTOR" THEN g
    ELSE IF typeAST.size.k = "Null" THEN Throw(g, "Vector type missing size expression")
    ELSE IF typeAST.size.k # "IntConst" THEN NotModelled(g)
    ELSE IF typeAST.size.v <= 0 THEN Throw(g, "Vector size must be positive")
    ELSE IF typeAST.elem \notin {"INT", "FLOAT"}
    THEN Throw(g, "Unsupported vector element type")
    ELSE g

\* void IRGenerator::generateDecl(DeclAST*)
GenerateDecl(decl, g) ==
    IF g.err # "" THEN g
    ELSE IF decl.k \in {"VarDecl", "ConstDecl"} THEN
        (CHOOSE out \in {
            IF g1.err # "" THEN g1
            ELSE GenerateVarDefsFrom(decl.defs, 1, GetType(decl.type),
                                     decl.k = "ConstDecl", g1)
          : g1 \in {GetTypeThrows(decl.type, g)}} : TRUE)
    ELSE Throw(g, "Unknown declaration type")

RECURSIVE GenerateStmt(_, _, _)
RECURSIVE GenerateItemsFrom(_, _, _, _)

\* a block that leaves its frame on the scope stack
GenerateBlock_FrameLeft(block, path, g) ==
    GenerateItemsFrom(block.items, 1, path, PushScope(g))

\* void IRGenerator::generateBlock(BlockAST*); path is the position of
\* the block in the function body
GenerateBlock(block, path, g) ==
    (CHOOSE out \in {
        PopScope(g1)
      : g1 \in {GenerateItemsFrom(block.items, 1, path, PushScope(g))}} : TRUE)

GenerateItemsFrom(items, i, path, g) ==
    IF g.err # "" \/ i > Len(items) THEN g
    ELSE (CHOOSE out \in {
             GenerateItemsFrom(items, i + 1, path, g1)
           : g1 \in {IF items[i].k \in {"VarDecl", "ConstDecl"}
                     THEN GenerateDecl(items[i], At(g, path \o <<i>>))
                     ELSE GenerateStmt(items[i], path \o <<i>>, g)}} : TRUE)

\* a return statement that returns the value as it is
GenerateReturn_NoConversion(stmt, g) ==
    IF stmt.value.k # "Null" THEN
        (CHOOSE out \in {
            IF g1.err # "" THEN g1
            ELSE IF IsVoidTy(CurFn(g).retType)
            THEN Throw(g1, "Void function cannot return a value")
            ELSE CreateRet(g1, g1.val)
          : g1 \in {GenerateExpr(stmt.value, g)}} : TRUE)
    ELSE IF ~IsVoidTy(CurFn(g).retType)
    THEN Throw(g, "Non-void function must return a value")
    ELSE CreateRetVoid(g)

\* the return statement
GenerateReturn(stmt, g) ==
    IF stmt.value.k # "Null" THEN
        (CHOOSE out \in {
            LET retValue == g1.val
                retType == CurFn(g).retType
            IN  IF g1.err # "" THEN g1
                ELSE IF IsVoidTy(retType)
                THEN Throw(g1, "Void function cannot return a value")
                ELSE IF retValue.ty = retType THEN CreateRet(g1, retValue)
                ELSE IF IsFloatTy(retType) /\ IsIntegerTy(retValue.ty)
                THEN (CHOOSE out \in {
                         CreateRet(g2, g2.val)
                       : g2 \in {CreateSIToFP(g1, retValue)}} : TRUE)
                ELSE IF IsIntegerTy(retType) /\ IsFloatTy(retValue.ty)
                THEN (CHOOSE out \in {
                         CreateRet(g2, g2.val)
                       : g2 \in {CreateFPToSI(g1, retValue)}} : TRUE)
                ELSE Throw(g1, "Unsupported return type conversion")
          : g1 \in {GenerateExpr(stmt.value, g)}} : TRUE)
    ELSE IF ~IsVoidTy(CurFn(g).retType)
    THEN Throw(g, "Non-void function must return a value")
    ELSE CreateRetVoid(g)

\* `builder.CreateICmpNE(condValue, ConstantInt::get(condValue->getType(), 0))`
\* ConstantInt::get needs an integer type
CondToBool(g) ==
    IF g.err # "" THEN g
    ELSE IF IsIntegerTy(g.val.ty)
    THEN CreateICmp(g, "ne", g.val, ConstantInt(g.val.ty, 0))
    ELSE NotModelled(g)

\* the if statement up to the conditional branch: the blocks are made and
\* the insertion point is in thenBB
IfHead(stmt, g) ==
    LET hasElse == stmt.else.k # "Null"
    IN  (CHOOSE out \in {
            (CHOOSE out \in {
                (CHOOSE out \in {
                    (CHOOSE out \in {
                        (CHOOSE out \in {
                            [g |-> SetInsertPoint(g5, g2.val), endBB |-> g3.val,
                             elseBB |-> g4.val]
                          : g5 \in {CreateCondBr(g4, g1.val, g2.val,
                                                 IF hasElse THEN g4.val ELSE g3.val)}} : TRUE)
                      : g4 \in {IF hasElse THEN CreateBlock(g3, "else") ELSE g3}} : TRUE)
                  : g3 \in {CreateBlock(InsertBlockAtEnd(g2, g2.val), "endif")}} : TRUE)
              : g2 \in {CreateBlock(g1, "then")}} : TRUE)
          : g1 \in {CondToBool(GenerateCondExpr(stmt.cond, g))}} : TRUE)

\* `theFunction->insert(theFunction->end(), elseBB);
\*  builder.SetInsertPoint(elseBB);`
IfElseStart(g, h) == SetInsertPoint(InsertBlockAtEnd(g, h.elseBB), h.elseBB)

\* the if statement, from its head on
GenerateIf(stmt, path, g) ==
    LET hasElse == stmt.else.k # "Null"
        \* up to the conditional branch; the insertion point is in thenBB
        head == IfHead(stmt, g)
    IN  (CHOOSE out \in {
            (CHOOSE out \in {
                (CHOOSE out \in {
                    (CHOOSE out \in {
                        (CHOOSE out \in {
                            SetInsertPoint(InsertBlockAtEnd(g9, h.endBB), h.endBB)
                          : g9 \in {IF hasElse THEN BrIfOpen(At(g8, path), h.endBB) ELSE g8}} : TRUE)
                      : g8 \in {IF hasElse
                                THEN GenerateStmt(stmt.else, path \o <<2>>, IfElseStart(g7, h))
                                ELSE g7}} : TRUE)
                  : g7 \in {BrIfOpen(At(g6, path), h.endBB)}} : TRUE)
              : g6 \in {GenerateStmt(stmt.then, path \o <<1>>, h.g)}} : TRUE)
          : h \in {head}} : TRUE)

\* `v[i] = x` on a symbol of vector type: the vector is loaded, the
\* element inserted and the vector stored back.  An index that is not an
\* i32 (CreateIntCast) is not followed.
VectorElementAssign(stmt, g, symInfo) ==
    LET varPtr == symInfo.value
        allocatedType == AllocatedTypeOf(varPtr)
    IN  IF Len(stmt.lval.indices) # 1
        THEN Throw(g, "Vector index must be one-dimensional")
        ELSE (CHOOSE out \in {
                 (CHOOSE out \in {
                     IF g2.err # "" THEN g2
                     ELSE IF ~IsIntegerTy(g2.val.ty) THEN Throw(g2, "Vector index must be integer")
                     ELSE IF g2.val.ty # I32 THEN NotModelled(g2)
                     ELSE (CHOOSE out \in {
                              (CHOOSE out \in {
                                  (CHOOSE out \in {
                                      CreateStore(g5, g5.val, varPtr)
                                    : g5 \in {Emit(g4, Inst("insertelement", allocatedType,
                                                            <<g1.val, g4.val, g2.val>>, <<>>, ""))}} : TRUE)
                                : g4 \in {ConvertInitializer(g3, allocatedType.elem,
                                              "Type mismatch in vector element assignment")}} : TRUE)
                            : g3 \in {GenerateExpr(stmt.expr, g2)}} : TRUE)
                   : g2 \in {GenerateExpr(stmt.lval.indices[1], g1)}} : TRUE)
               : g1 \in {CreateLoad(g, allocatedType, varPtr)}} : TRUE)

\* the assignment statement
GenerateAssign(stmt, g) ==
    LET symOpt == LookupSymbol(g, stmt.lval.name)
    IN  IF symOpt # Nullopt /\ symOpt.isArray /\ stmt.lval.indices = <<>>
        THEN Throw(g, "Cannot assign to array name directly, use array indexing")
        ELSE IF symOpt # Nullopt /\ IsVectorTy(AllocatedTypeOf(symOpt.value))
                /\ stmt.lval.indices # <<>>
        THEN VectorElementAssign(stmt, g, symOpt)
        ELSE (CHOOSE out \in {
                 (CHOOSE out \in {
                     CreateStore(g2, g2.val, g1.val)
                   : g2 \in {GenerateExpr(stmt.expr, g1)}} : TRUE)
               : g1 \in {GenerateLValAddress(stmt.lval, g)}} : TRUE)

\* pops that forget to restore the target stacks after a loop
PopTargets_Forgotten(g) == g

\* `breakTargets.pop_back(); continueTargets.pop_back();`
PopTargets(g) ==
    IF g.err # "" THEN g
    ELSE [g EXCEPT !.breakTargets = SubSeq(@, 1, Len(@) - 1),
                   !.continueTargets = SubSeq(@, 1, Len(@) - 1)]

\* `breakTargets.push_back(afterBB); continueTargets.push_back(condBB);`
PushTargets(g, afterBB, condBB) ==
    IF g.err # "" THEN g
    ELSE [g EXCEPT !.breakTargets = Append(@, afterBB),
                   !.continueTargets = Append(@, condBB)]

\* the while statement up to the conditional branch: the targets are
\* pushed and the insertion point is in loopBB
WhileHead(stmt, g) ==
    (CHOOSE out \in {
        (CHOOSE out \in {
            (CHOOSE out \in {
                (CHOOSE out \in {
                    (CHOOSE out \in {
                        (CHOOSE out \in {
                            [g |-> SetInsertPoint(InsertBlockAtEnd(g6, g2.val), g2.val),
                             condBB |-> g1.val, afterBB |-> g3.val]
                          : g6 \in {CreateCondBr(g5, g5.val, g2.val, g3.val)}} : TRUE)
                      : g5 \in {CondToBool(GenerateCondExpr(stmt.cond, SetInsertPoint(g4, g1.val)))}} : TRUE)
                  : g4 \in {CreateBr(PushTargets(g3, g3.val, g1.val), g1.val)}} : TRUE)
              : g3 \in {CreateBlock(g2, "whileafter")}} : TRUE)
          : g2 \in {CreateBlock(InsertBlockAtEnd(g1, g1.val), "whileloop")}} : TRUE)
      : g1 \in {CreateBlock(g, "whilecond")}} : TRUE)

\* the while statement, from its head on
GenerateWhile(stmt, path, g) ==
    LET \* up to the conditional branch; the insertion point is in loopBB
        head == WhileHead(stmt, g)
    IN  (CHOOSE out \in {
            (CHOOSE out \in {
                (CHOOSE out \in {
                    PopTargets(SetInsertPoint(InsertBlockAtEnd(g8, h.afterBB), h.afterBB))
                  : g8 \in {BrIfOpen(At(g7, path), h.condBB)}} : TRUE)
              : g7 \in {GenerateStmt(stmt.body, path \o <<1>>, h.g)}} : TRUE)
          : h \in {head}} : TRUE)

\* break and continue
GenerateBreak(g) ==
    IF g.breakTargets = <<>> THEN Throw(g, "Break statement outside of loop")
    ELSE CreateBr(g, g.breakTargets[Len(g.breakTargets)])

GenerateContinue(g) ==
    IF g.continueTargets = <<>> THEN Throw(g, "Continue statement outside of loop")
    ELSE CreateBr(g, g.continueTargets[Len(g.continueTargets)])

\* void IRGenerator::generateStmt(StmtAST*); path is the position of the
\* statement in the function body
GenerateStmt(stmt, path, g0) ==
    IF g0.err # "" THEN g0
    ELSE (CHOOSE out \in {
             CASE stmt.k = "Null" -> Throw(g, "Statement is null")
               [] stmt.k = "Return" -> GenerateReturn(stmt, g)
               [] stmt.k = "If" -> GenerateIf(stmt, path, g)
               [] stmt.k = "ExprStmt" ->
                      IF stmt.expr.k # "Null" THEN GenerateExpr(stmt.expr, g) ELSE g
               [] stmt.k = "Assign" -> GenerateAssign(stmt, g)
               [] stmt.k = "While" -> GenerateWhile(stmt, path, g)
               [] stmt.k = "Break" -> GenerateBreak(g)
               [] stmt.k = "Continue" -> GenerateContinue(g)
               [] stmt.k = "Block" -> GenerateBlock(stmt, path, g)
               [] OTHER -> Throw(g, "Unsupported statement type")
           : g \in {At(g0, path)}} : TRUE)

(***************************************************************************)
(* Lowering of functions                                                   *)
(***************************************************************************)
\* `for (sizeExpr : param->getArraySizes()) elementType =
\*  ArrayType::get(elementType, size)`; the type is in val
RECURSIVE ParamElementTypeFrom(_, _, _, _)
ParamElementTypeFrom(sizes, i, elementType, g) ==
    IF g.err # "" THEN g
    ELSE IF i > Len(sizes) THEN Return(g, elementType)
    ELSE (CHOOSE out \in {
             IF g1.err # "" THEN g1
             ELSE IF g1.val <= 0 THEN Throw(g1, "Array dimension must be positive")
             ELSE ParamElementTypeFrom(sizes, i + 1, ArrayTy(elementType, g1.val), g1)
           : g1 \in {EvaluateConstExpr(sizes[i], g)}} : TRUE)

\* the loop over func->getParams() that fills paramTypes and
\* paramElementTypes; both are in val
RECURSIVE ParamTypesFrom(_, _, _, _)
ParamTypesFrom(params, i, acc, g) ==
    IF g.err # "" THEN g
    ELSE IF i > Len(params) THEN Return(g, acc)
    ELSE LET paramType == GetType(params[i].type)
         IN  IF params[i].isArray
             THEN (CHOOSE out \in {
                      ParamTypesFrom(params, i + 1,
                          Append(acc, [paramType |-> PtrTy, elementType |-> g1.val]), g1)
                    : g1 \in {ParamElementTypeFrom(params[i].sizes, 1, paramType, g)}} : TRUE)
             ELSE ParamTypesFrom(params, i + 1,
                          Append(acc, [paramType |-> paramType, elementType |-> paramType]), g)

\* a linkage choice that lets a user function take a library name
FunctionLinkage_ByLibraryName(g, name) ==
    IF name = "main" \/ IsLibraryFunction(g, name) THEN ExternalLinkage
    ELSE InternalLinkage

\* `if (func->getName() == "main") linkageType = ExternalLinkage; else
\*  linkageType = InternalLinkage;`
FunctionLinkage(g, name) ==
    IF name = "main" THEN ExternalLinkage ELSE InternalLinkage

\* the positions given to the instructions of the prologue and of the
\* closing return of a function (statement positions start at 1)
PrologueAt == <<0>>
EpilogueAt == <<0, 0>>

\* first loop over llvmFunc->args(): an alloca and a store per argument;
\* the allocas are in val
RECURSIVE ParamAllocasFrom(_, _, _, _)
ParamAllocasFrom(types, i, acc, g) ==
    IF g.err # "" THEN g
    ELSE IF i > Len(types) THEN Return(g, acc)
    ELSE (CHOOSE out \in {
             (CHOOSE out \in {
                 ParamAllocasFrom(types, i + 1, Append(acc, g1.val), g2)
               : g2 \in {CreateStore(g1, Argument(types[i].paramType, i), g1.val)}} : TRUE)
           : g1 \in {CreateAlloca(g, types[i].paramType)}} : TRUE)

\* second loop: the pointer of an array parameter is loaded, and the
\* parameter enters the function scope
RECURSIVE ParamSymbolsFrom(_, _, _, _, _)
ParamSymbolsFrom(params, types, allocas, i, g) ==
    IF g.err # "" \/ i > Len(params) THEN g
    ELSE (CHOOSE out \in {
             LET isArray == params[i].isArray
                 loadedPtr == IF isArray THEN g1.val ELSE NullValue
                 symInfo == [SymbolInfo(allocas[i], FALSE, isArray, types[i].elementType)
                                EXCEPT !.loadedArrayPtr = loadedPtr]
             IN  (CHOOSE out \in {
                     ParamSymbolsFrom(params, types, allocas, i + 1, g2)
                   : g2 \in {AddSymbol(g1, params[i].name, symInfo)}} : TRUE)
           : g1 \in {IF params[i].isArray
                     THEN CreateLoad(g, types[i].paramType, allocas[i]) ELSE g}} : TRUE)

\* the closing of the function body: a block left open gets a return
CloseFunction(g, retType) ==
    IF g.err # "" THEN g
    ELSE IF HasTerminator(g) THEN g
    ELSE IF IsVoidTy(retType) THEN CreateRetVoid(g)
    ELSE CreateRet(g, UndefValue(retType))

\* the type rules of the verifier on one instruction of fn in module m
VerifyInst(m, fn, inst) ==
    CASE inst.op \in {"add", "sub", "mul", "sdiv", "srem", "and", "or",
                      "fadd", "fsub", "fmul", "fdiv", "icmp", "fcmp"} ->
             inst.args[1].ty = inst.args[2].ty
      [] inst.op = "ret" ->
             IF inst.args = <<>> THEN IsVoidTy(fn.retType)
             ELSE inst.args[1].ty = fn.retType
      [] inst.op = "store" -> ~IsVoidTy(inst.args[1].ty) /\ IsPointerTy(inst.args[2].ty)
      [] inst.op = "load" -> ~IsVoidTy(inst.ty) /\ IsPointerTy(inst.args[1].ty)
      [] inst.op = "condbr" -> inst.args[1].ty = I1
      [] inst.op = "call" ->
             LET callee == m.functions[GetFunction(m, inst.extra)]
             IN  /\ IF callee.isVarArg THEN Len(inst.args) >= Len(callee.paramTypes)
                    ELSE Len(inst.args) = Len(callee.paramTypes)
                 /\ \A i \in 1..Len(callee.paramTypes) :
                        i <= Len(inst.args) => inst.args[i].ty = callee.paramTypes[i]
      [] OTHER -> TRUE

\* a verifier that accepts every block
VerifyBlock_AcceptAll(m, fn, block) == TRUE

\* the verifier on one basic block: it ends with a terminator, has no
\* terminator before its end, and every instruction is well typed
VerifyBlock(m, fn, block) ==
    /\ block.insts # <<>>
    /\ IsTerminator(block.insts[Len(block.insts)])
    /\ \A i \in 1..(Len(block.insts) - 1) : ~IsTerminator(block.insts[i])
    /\ \A i \in 1..Len(block.insts) : VerifyInst(m, fn, block.insts[i])

\* !llvm::verifyFunction(fn): TRUE when the function is well formed.  A
\* declaration has to be visible outside the module.
VerifyFunction(m, fn) ==
    IF fn.blocks = <<>> THEN fn.linkage = ExternalLinkage
    ELSE \A b \in 1..Len(fn.blocks) : VerifyBlock(m, fn, fn.blocks[b])

\* !llvm::verifyModule(*module)
VerifyModule(m) == \A i \in 1..Len(m.functions) : VerifyFunction(m, m.functions[i])

\* generateFunction up to the parameters in scope: the insertion point is
\* in the entry block
FunctionHead(func, astIndex, g) ==
    LET retType == GetType(func.retType)
    IN  (CHOOSE out \in {
            (CHOOSE out \in {
                (CHOOSE out \in {
                    (CHOOSE out \in {
                        (CHOOSE out \in {
                            [g |-> ParamSymbolsFrom(func.params, g1.val, g6.val, 1, g6),
                             llvmFunc |-> Len(g2.module.functions)]
                          : g6 \in {ParamAllocasFrom(g1.val, 1, <<>>,
                                        SetInsertPoint(InsertBlockAtEnd(g4, g4.val), g4.val))}} : TRUE)
                      : g4 \in {CreateBlock(g3, "entry")}} : TRUE)
                  : g3 \in {IF g2.err # "" THEN g2
                            ELSE At([g2 EXCEPT !.currentFunction = Len(g2.module.functions)],
                                    PrologueAt)}} : TRUE)
              : g2 \in {IF g1.err # "" THEN g1
                        ELSE FunctionCreate(g1, retType,
                                 [i \in 1..Len(g1.val) |-> g1.val[i].paramType], FALSE,
                                 FunctionLinkage(g1, func.name), func.name, astIndex)}} : TRUE)
          : g1 \in {ParamTypesFrom(func.params, 1, <<>>, PushScope(g))}} : TRUE)

\* llvm::Function* IRGenerator::generateFunction(FunctionAST*); astIndex
\* is the position of func in compUnit->getFunctions()
GenerateFunction(func, astIndex, g) ==
    IF g.err # "" THEN g
    ELSE IF LookupSymbol(g, func.name) # Nullopt
    THEN Throw(g, "Redeclaration of function")
    ELSE LET retType == GetType(func.retType)
             prevFunction == g.currentFunction
             \* up to the parameters in scope; the insertion point is in entry
             head == FunctionHead(func, astIndex, g)
         IN  (CHOOSE out \in {
                 (CHOOSE out \in {
                     (CHOOSE out \in {
                         IF g9.err # "" THEN g9
                         ELSE IF ~VerifyFunction(g9.module, g9.module.functions[h.llvmFunc])
                         THEN Throw([g9 EXCEPT !.currentFunction = prevFunction],
                                    "Function verification failed")
                         ELSE [g9 EXCEPT !.currentFunction = prevFunction]
                       : g9 \in {PopScope(CloseFunction(At(g8, EpilogueAt), retType))}} : TRUE)
                   : g8 \in {GenerateBlock(func.body, <<>>, h.g)}} : TRUE)
               : h \in {head}} : TRUE)

(***************************************************************************)
(* The optimizer run on its own                                            *)
(***************************************************************************)
\* before main() has read anything
Init ==
    /\ build = "wrap"
    /\ src = NullNode
    /\ ast = NullNode
    /\ pc = "start"
    /\ passCount = 0
    /\ changed = FALSE
    /\ lastFold = NoFold
    /\ foldCalls = 0
    /\ gen = NewIRGenerator
    /\ looked = NoLookup

\* the parser delivers a compilation unit; the build of the compiler is
\* one of the possible ones
ParseFold ==
    /\ pc = "start"
    /\ build' \in Builds
    /\ src' \in FoldPrograms
    /\ ast' = src'
    /\ pc' = "parsed"
    /\ UNCHANGED <<passCount, changed, lastFold, foldCalls>>
    /\ UNCHANGED genVars

NextFold == ParseFold \/ OptimizeBegin \/ OptimizePass \/ OptimizeExit

SpecFold == Init /\ [][NextFold]_vars
SpecFoldFair == SpecFold /\ WF_vars(NextFold)

(***************************************************************************)
(* The scope stack on its own: any sequence of pushScope, popScope,        *)
(* addSymbol and lookupSymbol calls on a fresh IRGenerator                 *)
(***************************************************************************)
ScopeNames == {"a", "b"}
ScopeInfos ==
    {SymbolInfo([v |-> "global", name |-> "x1"], FALSE, FALSE, NullValue),
     SymbolInfo([v |-> "global", name |-> "x2"], TRUE, FALSE, NullValue)}

ScopePush ==
    /\ gen.err = ""
    /\ Len(gen.symbolTableStack) < MaxScopeDepth
    /\ gen' = PushScope(gen)
    /\ UNCHANGED <<optVars, looked>>

ScopePop ==
    /\ gen.err = ""
    /\ gen' = PopScope(gen)
    /\ UNCHANGED <<optVars, looked>>

ScopeAdd ==
    /\ gen.err = ""
    /\ \E name \in ScopeNames, info \in ScopeInfos : gen' = AddSymbol(gen, name, info)
    /\ UNCHANGED <<optVars, looked>>

ScopeLookup ==
    /\ gen.err = ""
    /\ \E name \in ScopeNames :
           looked' = [called |-> TRUE, name |-> name, result |-> LookupSymbol(gen, name)]
    /\ UNCHANGED <<optVars, gen>>

NextScope == ScopePush \/ ScopePop \/ ScopeAdd \/ ScopeLookup

SpecScope == Init /\ [][NextScope]_vars

(***************************************************************************)
(* Input programs for the IR generator                                     *)
(***************************************************************************)
IntLit(n) == IntConstExprAST(n)
Var(name) == LValExprAST(name, <<>>)
Elem(name, e) == LValExprAST(name, <<e>>)
IntVar(name) == VarDeclAST(IntType, <<VarDefAST(name, <<>>, NullNode)>>)
Set(name, e) == AssignStmtAST(Var(name), e)
Bin(op, l, r) == BinaryExprAST(op, l, r)
Func(retType, name, params, items) == FunctionAST(retType, name, params, BlockAST(items))
IntParam(name) == FuncFParamAST(IntType, name, FALSE, <<>>)
ArrParam(name, sizes) == FuncFParamAST(IntType, name, TRUE, sizes)
Unit(funcs) == CompUnitAST(<<>>, funcs)
Main0 == MainOf(<<ReturnStmtAST(IntLit(0))>>)

\* int main() { int i; i = 0;
\*   while (i < 3) { i = i + 1; if (i == 2) break; else continue; }
\*   return i; }
PLoop ==
    Unit(<<MainOf(<<IntVar("i"), Set("i", IntLit(0)),
        WhileStmtAST(Bin("LT", Var("i"), IntLit(3)),
            BlockAST(<<Set("i", Bin("ADD", Var("i"), IntLit(1))),
                       IfStmtAST(Bin("EQ", Var("i"), IntLit(2)),
                                 BreakStmtAST, ContinueStmtAST)>>)),
        ReturnStmtAST(Var("i"))>>)>>)

\* int main() { int i; int j; i = 0;
\*   while (i < 3) {
\*     j = 0;
\*     while (j < 2) { if (j == i) break; j = j + 1; continue; }
\*     if (i == 1) { i = i + 2; continue; }
\*     i = i + 1;
\*     break; }
\*   return i; }
PNested ==
    Unit(<<MainOf(<<IntVar("i"), IntVar("j"), Set("i", IntLit(0)),
        WhileStmtAST(Bin("LT", Var("i"), IntLit(3)),
            BlockAST(<<
                Set("j", IntLit(0)),
                WhileStmtAST(Bin("LT", Var("j"), IntLit(2)),
                    BlockAST(<<IfStmtAST(Bin("EQ", Var("j"), Var("i")),
                                         BreakStmtAST, NullNode),
                               Set("j", Bin("ADD", Var("j"), IntLit(1))),
                               ContinueStmtAST>>)),
                IfStmtAST(Bin("EQ", Var("i"), IntLit(1)),
                          BlockAST(<<Set("i", Bin("ADD", Var("i"), IntLit(2))),
                                     ContinueStmtAST>>),
                          NullNode),
                Set("i", Bin("ADD", Var("i"), IntLit(1))),
                BreakStmtAST>>)),
        ReturnStmtAST(Var("i"))>>)>>)

\* int main() { break; return 0; }      int main() { continue; }
PBreakOutside == Unit(<<MainOf(<<BreakStmtAST, ReturnStmtAST(IntLit(0))>>)>>)
PContinueOutside == Unit(<<MainOf(<<ContinueStmtAST>>)>>)

\* int main() { int i; i = 0; while (i) { i = 0; } continue; }
\* int main() { int i; i = 0; while (i) { i = 0; } break; }
PContinueAfterLoop ==
    Unit(<<MainOf(<<IntVar("i"), Set("i", IntLit(0)),
        WhileStmtAST(Var("i"), BlockAST(<<Set("i", IntLit(0))>>)),
        ContinueStmtAST>>)>>)
PBreakAfterLoop ==
    Unit(<<MainOf(<<IntVar("i"), Set("i", IntLit(0)),
        WhileStmtAST(Var("i"), BlockAST(<<Set("i", IntLit(0))>>)),
        BreakStmtAST>>)>>)

\* void f() { while (1) { break; } }
\* int main() { f(); break; }
PBreakOtherFunction ==
    Unit(<<Func(VoidType, "f", <<>>,
                <<WhileStmtAST(IntLit(1), BlockAST(<<BreakStmtAST>>))>>),
           MainOf(<<ExprStmtAST(CallExprAST("f", <<>>)), BreakStmtAST>>)>>)

\* int main() { int i; while (1) { break; i = 1; } return 0; }
PAfterBreak ==
    Unit(<<MainOf(<<IntVar("i"),
        WhileStmtAST(IntLit(1), BlockAST(<<BreakStmtAST, Set("i", IntLit(1))>>)),
        ReturnStmtAST(IntLit(0))>>)>>)

\* int main() { return 0; return 1; }
PAfterReturn == Unit(<<MainOf(<<ReturnStmtAST(IntLit(0)), ReturnStmtAST(IntLit(1))>>)>>)

\* int main() { int i; i = 0; while (i < 2) { continue; i = i + 1; } return i; }
PAfterContinue ==
    Unit(<<MainOf(<<IntVar("i"), Set("i", IntLit(0)),
        WhileStmtAST(Bin("LT", Var("i"), IntLit(2)),
            BlockAST(<<ContinueStmtAST, Set("i", Bin("ADD", Var("i"), IntLit(1)))>>)),
        ReturnStmtAST(Var("i"))>>)>>)

\* int sign(int a) { if (a < 0) return 0 - 1; else { if (a) return 1; else return 0; } }
\* void nop() { }
\* int main() { nop(); return sign(2); }
PIfReturn ==
    Unit(<<Func(IntType, "sign", <<IntParam("a")>>,
                <<IfStmtAST(Bin("LT", Var("a"), IntLit(0)),
                    ReturnStmtAST(Bin("SUB", IntLit(0), IntLit(1))),
                    BlockAST(<<IfStmtAST(Var("a"), ReturnStmtAST(IntLit(1)),
                                         ReturnStmtAST(IntLit(0)))>>))>>),
           Func(VoidType, "nop", <<>>, <<>>),
           MainOf(<<ExprStmtAST(CallExprAST("nop", <<>>)),
                    ReturnStmtAST(CallExprAST("sign", <<IntLit(2)>>))>>)>>)

\* int sum(int a[], int n) { int s; s = 0;
\*   while (n > 0) { n = n - 1; s = s + a[n]; a[n] = 0; }
\*   return s; }
\* int twice(int b[], int m[][2]) { m[1][0] = b[0]; putarray(2, b);
\*   return sum(b, 2) + m[0][1]; }
\* int main() { return 0; }
PArrayParam ==
    Unit(<<Func(IntType, "sum", <<ArrParam("a", <<>>), IntParam("n")>>,
                <<IntVar("s"), Set("s", IntLit(0)),
                  WhileStmtAST(Bin("GT", Var("n"), IntLit(0)),
                      BlockAST(<<Set("n", Bin("SUB", Var("n"), IntLit(1))),
                                 Set("s", Bin("ADD", Var("s"), Elem("a", Var("n")))),
                                 AssignStmtAST(Elem("a", Var("n")), IntLit(0))>>)),
                  ReturnStmtAST(Var("s"))>>),
           Func(IntType, "twice", <<ArrParam("b", <<>>), ArrParam("m", <<IntLit(2)>>)>>,
                <<AssignStmtAST(LValExprAST("m", <<IntLit(1), IntLit(0)>>),
                                Elem("b", IntLit(0))),
                  ExprStmtAST(CallExprAST("putarray", <<IntLit(2), Var("b")>>)),
                  ReturnStmtAST(Bin("ADD", CallExprAST("sum", <<Var("b"), IntLit(2)>>),
                                    LValExprAST("m", <<IntLit(0), IntLit(1)>>)))>>),
           Main0>>)

\* int getint() { return 1; }
\* void putint(int x) { }
\* int main() { putint(getint()); return getint(); }
PLibraryNames ==
    Unit(<<Func(IntType, "getint", <<>>, <<ReturnStmtAST(IntLit(1))>>),
           Func(VoidType, "putint", <<IntParam("x")>>, <<>>),
           MainOf(<<ExprStmtAST(CallExprAST("putint", <<CallExprAST("getint", <<>>)>>)),
                    ReturnStmtAST(CallExprAST("getint", <<>>))>>)>>)

\* int f() { return 0; }                         (no main)
\* int main() { return 0; } int main() { return 0; }
\* int main(int a) { return a; }
\* void main() { }      float main() { return 0; }
\* int f() { return 0; } int main(int a) { return 0; } int main() { return 0; }
PNoMain == Unit(<<Func(IntType, "f", <<>>, <<ReturnStmtAST(IntLit(0))>>)>>)
PTwoMains == Unit(<<Main0, Main0>>)
PMainParam == Unit(<<Func(IntType, "main", <<IntParam("a")>>, <<ReturnStmtAST(Var("a"))>>)>>)
PVoidMain == Unit(<<Func(VoidType, "main", <<>>, <<>>)>>)
PFloatMain == Unit(<<Func(FloatType, "main", <<>>, <<ReturnStmtAST(IntLit(0))>>)>>)
PMainThenBadMain ==
    Unit(<<Func(IntType, "f", <<>>, <<ReturnStmtAST(IntLit(0))>>),
           Func(IntType, "main", <<IntParam("a")>>, <<ReturnStmtAST(IntLit(0))>>),
           Main0>>)

\* int g; int main() { g = 1 + 2; return g; }
PGlobal ==
    CompUnitAST(<<IntVar("g")>>,
                <<MainOf(<<Set("g", Bin("ADD", IntLit(1), IntLit(2))),
                           ReturnStmtAST(Var("g"))>>)>>)

\* int f() { return 1; } int f() { return 2; } int main() { return f(); }
PTwoFunctions ==
    Unit(<<Func(IntType, "f", <<>>, <<ReturnStmtAST(IntLit(1))>>),
           Func(IntType, "f", <<>>, <<ReturnStmtAST(IntLit(2))>>),
           MainOf(<<ReturnStmtAST(CallExprAST("f", <<>>))>>)>>)

\* int g; int g; int main() { return 0; }
\* int f; int f() { return 0; } int main() { return 0; }
\* const int c = 1; int c; int main() { return 0; }
\* int c; const int c = 1; int main() { return 0; }
\* const int f = 1; int f() { return 0; } int main() { return 0; }
IntConst(name, e) ==
    ConstDeclAST(IntType, <<VarDefAST(name, <<>>, ExprInitValAST(e))>>)
PGlobalTwice == CompUnitAST(<<IntVar("g"), IntVar("g")>>, <<Main0>>)
PFunctionVsGlobal ==
    CompUnitAST(<<IntVar("f")>>,
                <<Func(IntType, "f", <<>>, <<ReturnStmtAST(IntLit(0))>>), Main0>>)
PConstVsVar == CompUnitAST(<<IntConst("c", IntLit(1)), IntVar("c")>>, <<Main0>>)
PVarVsConst == CompUnitAST(<<IntVar("c"), IntConst("c", IntLit(1))>>, <<Main0>>)
PFunctionVsConst ==
    CompUnitAST(<<IntConst("f", IntLit(1))>>,
                <<Func(IntType, "f", <<>>, <<ReturnStmtAST(IntLit(0))>>), Main0>>)

\* int main() { vector<int, 4> v; v = 1; return 0; }
\* int main() { vector<int, 2> v; int a[2]; v = a; return 0; }
\* int main() { vector<int, 2> v; vector<int, 2> w; v[0] = 1; w = v; return 0; }
VectorVar(name, n) ==
    VarDeclAST(VectorType("INT", IntLit(n)), <<VarDefAST(name, <<>>, NullNode)>>)
IntArray(name, sizes, init) == VarDeclAST(IntType, <<VarDefAST(name, sizes, init)>>)
PVectorScalarAssign ==
    Unit(<<MainOf(<<VectorVar("v", 4), Set("v", IntLit(1)),
                    ReturnStmtAST(IntLit(0))>>)>>)
PVectorArrayAssign ==
    Unit(<<MainOf(<<VectorVar("v", 2), IntArray("a", <<IntLit(2)>>, NullNode),
                    Set("v", Var("a")), ReturnStmtAST(IntLit(0))>>)>>)
PVectorAssign ==
    Unit(<<MainOf(<<VectorVar("v", 2), VectorVar("w", 2),
                    AssignStmtAST(Elem("v", IntLit(0)), IntLit(1)),
                    Set("w", Var("v")), ReturnStmtAST(IntLit(0))>>)>>)

\* int a[3] = {1, 2}; int main() { return 0; }  and the like: a global
\* array of each shape with each flat list of 1 .. (element count) values
ArrayShapes == {<<3>>, <<2, 2>>, <<3, 2>>}
RECURSIVE ElementCount(_)
ElementCount(shape) ==
    IF shape = <<>> THEN 1 ELSE shape[1] * ElementCount(Tail(shape))
IntList(values) ==
    ListInitValAST([i \in 1..Len(values) |-> ExprInitValAST(IntLit(values[i]))])
FlatList(n) == IntList([i \in 1..n |-> i])
SizesOf(shape) == [i \in 1..Len(shape) |-> IntLit(shape[i])]
PGlobalArray(shape, init) ==
    CompUnitAST(<<IntArray("a", SizesOf(shape), init)>>, <<Main0>>)
PGlobalArrayFlat ==
    UNION {{PGlobalArray(shape, FlatList(n)) : n \in 1..ElementCount(shape)}
              : shape \in ArrayShapes}

\* int a[2][2] = {{1}, {2, 3}};    int a[2][2] = {{1, 2}};
\* int a[2][2] = {{1}, 2, 3};      int a[2][2] = {1, 2, {3}};
\* int a[2][2] = {1, {2, 3}};
NestedLists ==
    {<<IntList(<<1>>), IntList(<<2, 3>>)>>,
     <<IntList(<<1, 2>>)>>,
     <<IntList(<<1>>), ExprInitValAST(IntLit(2)), ExprInitValAST(IntLit(3))>>,
     <<ExprInitValAST(IntLit(1)), ExprInitValAST(IntLit(2)), IntList(<<3>>)>>,
     <<ExprInitValAST(IntLit(1)), IntList(<<2, 3>>)>>}
PGlobalArrayNested ==
    {PGlobalArray(<<2, 2>>, ListInitValAST(vals)) : vals \in NestedLists}

\* int main() { return !0; }
\* int main() { int x; x = 0; return !x; }
\* (the grammar has `&&`, `||` and the comparisons in conditions only:
\* visitExp descends to addExp)
PNotLiteral == Unit(<<MainOf(<<ReturnStmtAST(UnaryExprAST("NOT", IntLit(0)))>>)>>)
PNotVar ==
    Unit(<<MainOf(<<IntVar("x"), Set("x", IntLit(0)),
                    ReturnStmtAST(UnaryExprAST("NOT", Var("x")))>>)>>)

\* int main() { int a; int b; a = 2; b = 1; if (a && b) return 1; return 0; }
\* int main() { int a; a = 2; if (a < 1 || a > 2) return 1; return 0; }
PCondAnd ==
    Unit(<<MainOf(<<IntVar("a"), IntVar("b"), Set("a", IntLit(2)), Set("b", IntLit(1)),
                    IfStmtAST(Bin("AND", Var("a"), Var("b")),
                              ReturnStmtAST(IntLit(1)), NullNode),
                    ReturnStmtAST(IntLit(0))>>)>>)
PCondOr ==
    Unit(<<MainOf(<<IntVar("a"), Set("a", IntLit(2)),
                    IfStmtAST(Bin("OR", Bin("LT", Var("a"), IntLit(1)),
                                         Bin("GT", Var("a"), IntLit(2))),
                              ReturnStmtAST(IntLit(1)), NullNode),
                    ReturnStmtAST(IntLit(0))>>)>>)

\* int main() { float f; f = 1; return 0; }
\* int main() { int a; a = 1.5; return 0; }
\* int main() { float f; f = 1.5; return 0; }
FloatVar(name) == VarDeclAST(FloatType, <<VarDefAST(name, <<>>, NullNode)>>)
PAssignIntToFloat ==
    Unit(<<MainOf(<<FloatVar("f"), Set("f", IntLit(1)), ReturnStmtAST(IntLit(0))>>)>>)
PAssignFloatToInt ==
    Unit(<<MainOf(<<IntVar("a"), Set("a", FloatConstExprAST(3, 2)),
                    ReturnStmtAST(IntLit(0))>>)>>)
PAssignFloat ==
    Unit(<<MainOf(<<FloatVar("f"), Set("f", FloatConstExprAST(3, 2)),
                    ReturnStmtAST(IntLit(0))>>)>>)

\* const int c = 1;               int main() { c = 2; return 0; }
\* const int a[2] = {1, 2};       int main() { a[0] = 3; return 0; }
\* const vector<int, 2> v = {1, 2}; int main() { v[0] = 3; return 0; }
\* int main() { int a[2]; a = 1; return 0; }
PAssignConstScalar ==
    UnitOf(<<IntConst("c", IntLit(1))>>, <<Set("c", IntLit(2)), ReturnStmtAST(IntLit(0))>>)
PAssignConstElement ==
    UnitOf(<<ConstDeclAST(IntType, <<VarDefAST("a", <<IntLit(2)>>, IntList(<<1, 2>>))>>)>>,
           <<AssignStmtAST(Elem("a", IntLit(0)), IntLit(3)), ReturnStmtAST(IntLit(0))>>)
PAssignConstVector ==
    UnitOf(<<ConstDeclAST(VectorType("INT", IntLit(2)),
                          <<VarDefAST("v", <<>>, IntList(<<1, 2>>))>>)>>,
           <<AssignStmtAST(Elem("v", IntLit(0)), IntLit(3)), ReturnStmtAST(IntLit(0))>>)
PAssignArrayName ==
    UnitOf(<<>>, <<IntArray("a", <<IntLit(2)>>, NullNode), Set("a", IntLit(1)),
                   ReturnStmtAST(IntLit(0))>>)

\* int main() { int a[3] = {1}; return 0; }, and so on for every shape and
\* every flat list of 1 .. (element count) values
PLocalArray(shape, init) ==
    UnitOf(<<>>, <<IntArray("a", SizesOf(shape), init), ReturnStmtAST(IntLit(0))>>)
PLocalArrayFlat ==
    UNION {{PLocalArray(shape, FlatList(n)) : n \in 1..ElementCount(shape)}
              : shape \in ArrayShapes}

\* int main() { int i; i = 0; while (i < 3) { int x; x = i; i = i + 1; } return i; }
\* int main() { int i; i = 0; if (i < 3) { int x; x = i; } else { int y; y = i; } return i; }
PLocalInLoop ==
    Unit(<<MainOf(<<IntVar("i"), Set("i", IntLit(0)),
        WhileStmtAST(Bin("LT", Var("i"), IntLit(3)),
            BlockAST(<<IntVar("x"), Set("x", Var("i")),
                       Set("i", Bin("ADD", Var("i"), IntLit(1)))>>)),
        ReturnStmtAST(Var("i"))>>)>>)
PLocalInBranch ==
    Unit(<<MainOf(<<IntVar("i"), Set("i", IntLit(0)),
        IfStmtAST(Bin("LT", Var("i"), IntLit(3)),
                  BlockAST(<<IntVar("x"), Set("x", Var("i"))>>),
                  BlockAST(<<IntVar("y"), Set("y", Var("i"))>>)),
        ReturnStmtAST(Var("i"))>>)>>)

\* int x; int main() { int x; x = 1; return x; }
\* int f(int a) { int a; a = 1; return a; } int main() { return f(1); }
\* int x; int main() { const int x = 1; return x; }
\* int main() { int a; a = 0; { const int a = 1; } return a; }
\* int main() { int a; { int a; a = 1; } a = 0; return a; }
\* int main() { int a; int a; return 0; }
\* int main() { const int a = 1; const int a = 2; return 0; }
PShadowGlobal ==
    UnitOf(<<IntVar("x")>>, <<IntVar("x"), Set("x", IntLit(1)), ReturnStmtAST(Var("x"))>>)
PShadowParam ==
    Unit(<<Func(IntType, "f", <<IntParam("a")>>,
                <<IntVar("a"), Set("a", IntLit(1)), ReturnStmtAST(Var("a"))>>),
           MainOf(<<ReturnStmtAST(CallExprAST("f", <<IntLit(1)>>))>>)>>)
PConstShadowsGlobal ==
    UnitOf(<<IntVar("x")>>, <<IntConst("x", IntLit(1)), ReturnStmtAST(Var("x"))>>)
PConstShadowsLocal ==
    UnitOf(<<>>, <<IntVar("a"), Set("a", IntLit(0)),
                   BlockAST(<<IntConst("a", IntLit(1))>>), ReturnStmtAST(Var("a"))>>)
PShadowLocal ==
    UnitOf(<<>>, <<IntVar("a"), BlockAST(<<IntVar("a"), Set("a", IntLit(1))>>),
                   Set("a", IntLit(0)), ReturnStmtAST(Var("a"))>>)
PLocalTwice ==
    UnitOf(<<>>, <<IntVar("a"), IntVar("a"), ReturnStmtAST(IntLit(0))>>)
PLocalConstTwice ==
    UnitOf(<<>>, <<IntConst("a", IntLit(1)), IntConst("a", IntLit(2)),
                   ReturnStmtAST(IntLit(0))>>)

\* const int N = 2; const int M = -1; const float F = 1.5; int v;
SizeDecls ==
    <<IntConst("N", IntLit(2)), IntConst("M", UnaryExprAST("MINUS", IntLit(1))),
      ConstDeclAST(FloatType, <<VarDefAST("F", <<>>, ExprInitValAST(FloatConstExprAST(3, 2)))>>),
      IntVar("v")>>
\* array dimensions over N, M and v
IntSizeExprs ==
    {Bin("ADD", Var("N"), IntLit(1)),
     Bin("MUL", Var("N"), Var("N")),
     UnaryExprAST("PLUS", Var("N")),
     Bin("ADD", Bin("SUB", Var("N"), IntLit(3)), IntLit(2)),
     Bin("ADD", Var("N"), Bin("SUB", IntLit(0), IntLit(1))),
     Bin("ADD", Var("M"), IntLit(2)),
     UnaryExprAST("MINUS", Var("M")),
     Bin("DIV", Var("N"), Bin("SUB", Var("N"), IntLit(2))),
     Bin("MOD", Var("N"), Bin("SUB", Var("N"), IntLit(2))),
     Bin("DIV", IntLit(3), Var("N")),
     Bin("MOD", IntLit(3), Var("N")),
     Bin("SUB", Var("N"), IntLit(3)),
     Bin("ADD", Var("v"), IntLit(1))}
ConstArray(name, sizes, init) == ConstDeclAST(IntType, <<VarDefAST(name, sizes, init)>>)
\* int a[e];  at global scope and in main;  const int a[e] = {1};  likewise
PGlobalSized(e) == CompUnitAST(SizeDecls \o <<IntArray("a", <<e>>, NullNode)>>, <<Main0>>)
PLocalSized(e) ==
    UnitOf(SizeDecls, <<IntArray("a", <<e>>, NullNode), ReturnStmtAST(IntLit(0))>>)
PGlobalConstSized(e) ==
    CompUnitAST(SizeDecls \o <<ConstArray("a", <<e>>, IntList(<<1>>))>>, <<Main0>>)
PLocalConstSized(e) ==
    UnitOf(SizeDecls, <<ConstArray("a", <<e>>, IntList(<<1>>)), ReturnStmtAST(IntLit(0))>>)
PSized ==
    UNION {{PGlobalSized(e), PLocalSized(e), PGlobalConstSized(e), PLocalConstSized(e)}
              : e \in IntSizeExprs}
\* int a[F + 1]; with the float constant F
PFloatSized == PGlobalSized(Bin("ADD", Var("F"), IntLit(1)))
\* int main() { int n; int a[n + 1]; return 0; }
\* int main() { const int n = 2; int a[n + 1]; return 0; }
\* int f(int n) { int a[n + 1]; return 0; } int main() { return f(1); }
PLocalVarSized ==
    UnitOf(<<>>, <<IntVar("n"), IntArray("a", <<Bin("ADD", Var("n"), IntLit(1))>>, NullNode),
                   ReturnStmtAST(IntLit(0))>>)
PLocalConstNameSized ==
    UnitOf(<<>>, <<IntConst("n", IntLit(2)),
                   IntArray("a", <<Bin("ADD", Var("n"), IntLit(1))>>, NullNode),
                   ReturnStmtAST(IntLit(0))>>)
PParamSized ==
    Unit(<<Func(IntType, "f", <<IntParam("n")>>,
                <<IntArray("a", <<Bin("ADD", Var("n"), IntLit(1))>>, NullNode),
                  ReturnStmtAST(IntLit(0))>>),
           MainOf(<<ReturnStmtAST(CallExprAST("f", <<IntLit(1)>>))>>)>>)

\* void f() { return 1; }               int main() { f(); return 0; }
\* int f() { return; }                  int main() { return f(); }
\* float f() { return 1; }              int main() { f(); return 0; }
\* int f() { float x; x = 1.5; return x; }  int main() { return f(); }
\* void f() { return; }                 int main() { f(); return 0; }
\* void f() { int x; x = 1; }           int main() { f(); return 0; }
\* int f() { int x; x = 1; }            int main() { return f(); }
\* int main() { int x; x = 1; if (x) return 1; }
CallsF(f) == Unit(<<f, MainOf(<<ExprStmtAST(CallExprAST("f", <<>>)), ReturnStmtAST(IntLit(0))>>)>>)
ReturnsF(f) == Unit(<<f, MainOf(<<ReturnStmtAST(CallExprAST("f", <<>>))>>)>>)
PVoidReturnsValue == CallsF(Func(VoidType, "f", <<>>, <<ReturnStmtAST(IntLit(1))>>))
PBareReturn == ReturnsF(Func(IntType, "f", <<>>, <<ReturnStmtAST(NullNode)>>))
PFloatReturnsInt == CallsF(Func(FloatType, "f", <<>>, <<ReturnStmtAST(IntLit(1))>>))
PIntReturnsFloat ==
    ReturnsF(Func(IntType, "f", <<>>,
                  <<FloatVar("x"), Set("x", FloatConstExprAST(3, 2)), ReturnStmtAST(Var("x"))>>))
PVoidReturns == CallsF(Func(VoidType, "f", <<>>, <<ReturnStmtAST(NullNode)>>))
PVoidFallsOff == CallsF(Func(VoidType, "f", <<>>, <<IntVar("x"), Set("x", IntLit(1))>>))
PIntFallsOff == ReturnsF(Func(IntType, "f", <<>>, <<IntVar("x"), Set("x", IntLit(1))>>))
PBranchFallsOff ==
    Unit(<<MainOf(<<IntVar("x"), Set("x", IntLit(1)),
                    IfStmtAST(Var("x"), ReturnStmtAST(IntLit(1)), NullNode)>>)>>)

\* int f(int a) { return a; } int main() { callee(args); return 0; }
\* with up to MaxCallArgs int literals as arguments
MaxCallArgs == 2
CallArgs(callee, n) == [i \in 1..n |-> IntLit(i)]
CalledNames == {"f", "getint", "putint", "putch", "starttime", "stoptime", "putf"}
CallProgram(callee, n) ==
    Unit(<<Func(IntType, "f", <<IntParam("a")>>, <<ReturnStmtAST(Var("a"))>>),
           MainOf(<<ExprStmtAST(CallExprAST(callee, CallArgs(callee, n))),
                    ReturnStmtAST(IntLit(0))>>)>>)
PCalls == {CallProgram(callee, n) : callee \in CalledNames, n \in 0..MaxCallArgs}

\* int main() { int a[2][2]; int i; i = 1; i = a[i]...[i]; return i; }
\* int main() { int a[2][2]; int i; i = 1; a[i]...[i] = 2; return i; }
\* int f(int p[][2]) { int i; i = 1; i = p[i]...[i]; return i; }
\* int f(int p[][2]) { int i; i = 1; p[i]...[i] = 2; return i; }
\*     int main() { int a[2][2]; return f(a); }
\* with one to MaxIndices indices
MatrixSizes == <<IntLit(2), IntLit(2)>>
IndexRank == Len(MatrixSizes)
MaxIndices == 3
Indexed(name, k) == LValExprAST(name, [j \in 1..k |-> Var("i")])
IndexUse(name, k, load) ==
    <<IntVar("i"), Set("i", IntLit(1)),
      IF load THEN Set("i", Indexed(name, k))
      ELSE AssignStmtAST(Indexed(name, k), IntLit(2)),
      ReturnStmtAST(Var("i"))>>
Matrix(name) == IntArray(name, MatrixSizes, NullNode)
PIndexArray(k, load) == Unit(<<MainOf(<<Matrix("a")>> \o IndexUse("a", k, load))>>)
PIndexParam(k, load) ==
    Unit(<<Func(IntType, "f", <<ArrParam("p", Tail(MatrixSizes))>>, IndexUse("p", k, load)),
           MainOf(<<Matrix("a"), ReturnStmtAST(CallExprAST("f", <<Var("a")>>))>>)>>)
PIndexed ==
    {PIndexArray(k, load) : k \in 1..MaxIndices, load \in BOOLEAN}
        \cup {PIndexParam(k, load) : k \in 1..MaxIndices, load \in BOOLEAN}

\* int main() { if (a && b) return 1; return 0; }
\* int main() { if (a || b) return 1; return 0; }
\* int main() { if (!a) return 1; return 0; }
\* for literals a and b
CondLitValues == {v \in IntLitValues : 0 <= v /\ v <= 3}
CondProgram(cond) ==
    Unit(<<MainOf(<<IfStmtAST(cond, ReturnStmtAST(IntLit(1)), NullNode),
                    ReturnStmtAST(IntLit(0))>>)>>)
CondOf(unit) == unit.functions[1].body.items[1].cond
LiteralConds ==
    {Bin(op, IntLit(a), IntLit(b)) : op \in {"AND", "OR"}, a \in CondLitValues, b \in CondLitValues}
        \cup {UnaryExprAST("NOT", IntLit(a)) : a \in CondLitValues}
PLiteralConds == {CondProgram(cond) : cond \in LiteralConds}

GenPrograms ==
    {Unit(<<Main0>>), PLoop, PNested, PBreakOutside, PContinueOutside,
     PContinueAfterLoop, PBreakAfterLoop, PBreakOtherFunction, PAfterBreak,
     PAfterReturn, PAfterContinue, PIfReturn, PArrayParam, PLibraryNames,
     PNoMain, PTwoMains, PMainParam, PVoidMain, PFloatMain, PMainThenBadMain,
     PGlobal, PTwoFunctions, PGlobalTwice, PFunctionVsGlobal, PConstVsVar,
     PVarVsConst, PFunctionVsConst, PVectorScalarAssign, PVectorArrayAssign,
     PVectorAssign, PNotLiteral, PNotVar, PCondAnd, PCondOr, PAssignIntToFloat, PAssignFloatToInt,
     PAssignFloat, PAssignConstScalar, PAssignConstElement, PAssignConstVector,
     PAssignArrayName,
     PLocalInLoop, PLocalInBranch,
     PShadowGlobal, PShadowParam, PConstShadowsGlobal, PConstShadowsLocal, PShadowLocal, PLocalTwice, PLocalConstTwice,
     PFloatSized, PLocalVarSized, PLocalConstNameSized, PParamSized,
     PVoidReturnsValue, PBareReturn, PFloatReturnsInt, PIntReturnsFloat, PVoidReturns, PVoidFallsOff, PIntFallsOff, PBranchFallsOff}
        \cup PGlobalArrayFlat \cup PGlobalArrayNested \cup PLocalArrayFlat
        \cup PSized \cup PCalls \cup PIndexed \cup PLiteralConds

(***************************************************************************)
(* IRGenerator::generate and the pipeline of main()                        *)
(***************************************************************************)
\* a check of main that looks at the return type only
MainSignatureOk_ReturnTypeOnly(func) == func.retType.k = "INT"

\* the negation of `func->getReturnType()->getKind() != TypeAST::Kind::INT
\*  || !func->getParams().empty()`
MainSignatureOk(func) == func.retType.k = "INT" /\ func.params = <<>>

\* the loop of generate() over compUnit->getDecls()
RECURSIVE GenerateDeclsFrom(_, _, _)
GenerateDeclsFrom(decls, i, g) ==
    IF g.err # "" \/ i > Len(decls) THEN g
    ELSE (CHOOSE out \in {
             GenerateDeclsFrom(decls, i + 1, g1)
           : g1 \in {GenerateDecl(decls[i], g)}} : TRUE)

\* one iteration of the loop of generate() over compUnit->getFunctions()
GenerateOneFunction(func, astIndex, g) ==
    IF func.name = "main" THEN
        IF g.hasMainFunc THEN Throw(g, "Multiple main functions defined")
        ELSE IF ~MainSignatureOk(func)
        THEN Throw(g, "main function must have no parameters and return int")
        ELSE GenerateFunction(func, astIndex, [g EXCEPT !.hasMainFunc = TRUE])
    ELSE GenerateFunction(func, astIndex, g)

RECURSIVE GenerateFunctionsFrom(_, _, _)
GenerateFunctionsFrom(funcs, i, g) ==
    IF g.err # "" \/ i > Len(funcs) THEN g
    ELSE (CHOOSE out \in {
             GenerateFunctionsFrom(funcs, i + 1, g1)
           : g1 \in {GenerateOneFunction(funcs[i], i, g)}} : TRUE)

\* generate() up to the loop over the functions: the module is made, the
\* global frame pushed, the library declared and the global declarations
\* lowered
GenerateGlobals(compUnit, g) ==
    (CHOOSE out \in {
        GenerateDeclsFrom(compUnit.decls, 1, [g1 EXCEPT !.hasMainFunc = FALSE])
      : g1 \in {DeclareLibraryFunctions(PushScope(
                    [g EXCEPT !.module = NewModule, !.symbolTableStack = <<>>]))}} : TRUE)

\* std::unique_ptr<llvm::Module> IRGenerator::generate(CompUnitAST*)
Generate(compUnit, g) ==
    (CHOOSE out \in {
        IF g3.err # "" THEN g3
        ELSE IF ~g3.hasMainFunc THEN Throw(g3, "No main function defined")
        ELSE IF ~VerifyModule(g3.module) THEN Throw(g3, "Module verification failed")
        ELSE PopScope(g3)
      : g3 \in {GenerateFunctionsFrom(compUnit.functions, 1,
                    GenerateGlobals(compUnit, g))}} : TRUE)

\* the parser delivers a compilation unit
Parse ==
    /\ pc = "start"
    /\ build' \in Builds
    /\ src' \in GenPrograms
    /\ ast' = src'
    /\ pc' = "parsed"
    /\ UNCHANGED <<passCount, changed, lastFold, foldCalls>>
    /\ UNCHANGED genVars

\* `IRGenerator irGen; irGen.declareLibraryFunctions();`
DeclareLibrary ==
    /\ pc = "optimized"
    /\ gen' = DeclareLibraryFunctions(gen)
    /\ pc' = "declared"
    /\ UNCHANGED <<build, ast, passCount, changed, src, lastFold, foldCalls, looked>>

\* `auto module = irGen.generate(ast.get());` in the try block of main()
GenerateModule ==
    /\ pc = "declared"
    /\ \E g \in {Generate(ast, gen)} :
           /\ gen' = g
           /\ pc' = IF g.err = "" THEN "generated"
                    ELSE IF g.err = SignalMsg THEN "crashed" ELSE "failed"
    /\ UNCHANGED <<build, ast, passCount, changed, src, lastFold, foldCalls, looked>>

Next ==
    \/ Parse
    \/ OptimizeBegin
    \/ OptimizePass
    \/ OptimizeExit
    \/ DeclareLibrary
    \/ GenerateModule

Spec == Init /\ [][Next]_vars

(***************************************************************************)
(* Properties of the constant folder and its driver                        *)
(***************************************************************************)
\* C1: fold idempotence.  Once the folder has run on the AST, running it
\* again leaves the AST structurally identical: no step taken after the
\* first fold changes the AST.
C1_FoldIdempotent == [][foldCalls >= 1 => ast' = ast]_vars

\* the folder has run a second time on an AST that its first run rewrote
C1_Witness ==
    /\ foldCalls >= 2
    /\ lastFold.called
    /\ lastFold.before # src
    /\ ast = lastFold.before

\* C2: fold returns true if and only if the pass changed at least one
\* subtree of the AST.
C2_FoldReturnsChanged ==
    lastFold.called => (lastFold.ret <=> (ast # lastFold.before))

\* C3: optimize always terminates, after at most 8 invocations of fold.
C3_OptimizeTerminates ==
    /\ [](foldCalls <= 8)
    /\ <>(pc \notin {"start", "parsed", "optimize"})

\* optimize has returned after using the whole pass budget
C3_Witness == pc = "optimized" /\ foldCalls = 8 /\ changed

\* the operator applied in two's-complement arithmetic with wrap-around,
\* as the language defines it
RefBinaryOp(op, a, b) ==
    CASE op = "ADD" -> Wrap(a + b)
      [] op = "SUB" -> Wrap(a - b)
      [] op = "MUL" -> Wrap(a * b)
      [] op = "DIV" -> IF b = 0 THEN 0 ELSE Wrap(TruncDiv(a, b))
      [] op = "MOD" -> IF b = 0 THEN 0 ELSE Wrap(TruncRem(a, b))
      [] op = "LT"  -> IF a < b THEN 1 ELSE 0
      [] op = "GT"  -> IF a > b THEN 1 ELSE 0
      [] op = "LE"  -> IF a <= b THEN 1 ELSE 0
      [] op = "GE"  -> IF a >= b THEN 1 ELSE 0
      [] op = "EQ"  -> IF a = b THEN 1 ELSE 0
      [] op = "NE"  -> IF a # b THEN 1 ELSE 0
      [] op = "AND" -> IF a # 0 /\ b # 0 THEN 1 ELSE 0
      [] op = "OR"  -> IF a # 0 \/ b # 0 THEN 1 ELSE 0

IsIntLitForm(e) == \E v \in IntLitValues : e = IntLitForm(v)
IntLitFormValue(e) == CHOOSE v \in IntLitValues : e = IntLitForm(v)

\* the program is `int main() { return <e>; }`
IsReturnProgram(unit) ==
    /\ unit.decls = <<>>
    /\ Len(unit.functions[1].body.items) = 1
    /\ unit.functions[1].body.items[1].k = "Return"
ReturnedExpr(unit) == unit.functions[1].body.items[1].value

\* C4: integer fold correctness.  For every binary operator and every pair
\* of integer literals the folder produces the literal that the operator
\* yields in two's-complement arithmetic with wrap-around, division and
\* modulo by zero giving 0.
C4_IntFoldCorrect ==
    (/\ foldCalls >= 1
     /\ IsReturnProgram(src)
     /\ ReturnedExpr(src).k = "Binary"
     /\ IsIntLitForm(ReturnedExpr(src).lhs)
     /\ IsIntLitForm(ReturnedExpr(src).rhs))
    => (/\ pc # "crashed"
        /\ ReturnedExpr(ast) =
             IntConstExprAST(RefBinaryOp(ReturnedExpr(src).op,
                                         IntLitFormValue(ReturnedExpr(src).lhs),
                                         IntLitFormValue(ReturnedExpr(src).rhs))))

(***************************************************************************)
(* Properties of the IR generator                                          *)
(***************************************************************************)
\* the innermost frame of stack that binds name (0 if none does)
InnermostFrame(stack, name) ==
    LET binders == {i \in 1..Len(stack) : name \in DOMAIN stack[i]}
    IN  IF binders = {} THEN 0 ELSE CHOOSE i \in binders : \A j \in binders : j <= i

\* what a name denotes in a stack: the binding of the innermost frame that has it
Visible(stack, name) ==
    IF InnermostFrame(stack, name) = 0 THEN Nullopt
    ELSE stack[InnermostFrame(stack, name)][name]

\* C5: symbol shadowing in the scope stack.  Every lookupSymbol call
\* returns the binding of the innermost frame that binds the name (so an
\* inner binding hides an outer one for as long as its frame is on the
\* stack); after a popScope every name denotes what the frames below the
\* popped one bound it to; and no operation modifies a frame that lies
\* below the top of the stack.
C5_Shadowing ==
    [][LET st == gen.symbolTableStack
           st2 == gen'.symbolTableStack
       IN  /\ looked' # looked =>
                  looked'.result = Visible(st, looked'.name)
           /\ Len(st2) < Len(st) =>
                  \A n \in ScopeNames :
                      LookupSymbol(gen', n) = Visible(SubSeq(st, 1, Len(st) - 1), n)
           /\ \A i \in 1..Len(st) :
                  (i <= Len(st2) /\ (i < Len(st) \/ i < Len(st2))) => st2[i] = st[i]
      ]_vars

\* a lookup has returned the inner binding of a name that an outer frame
\* binds to something else
C5_Witness ==
    LET st == gen.symbolTableStack
    IN  /\ looked.called
        /\ Len(st) >= 2
        /\ looked.name \in DOMAIN st[Len(st)]
        /\ looked.name \in DOMAIN st[1]
        /\ st[1][looked.name] # st[Len(st)][looked.name]
        /\ looked.result = st[Len(st)][looked.name]

\* no path of the lowering that the model leaves out is taken by an input
ModelCovers == gen.err # NotModelledMsg

\* the functions of the module that were generated from a FunctionAST
UserFunctions == IF gen.module = NullValue THEN {}
                 ELSE {i \in 1..Len(gen.module.functions) : gen.module.functions[i].user}

\* the instructions of a function, as the set of their (block, index) places
Places(fn) ==
    UNION {{<<b, i>> : i \in 1..Len(fn.blocks[b].insts)} : b \in 1..Len(fn.blocks)}
InstAt(fn, place) == fn.blocks[place[1]].insts[place[2]]

\* C6: in a module that generate() returned, every basic block of every
\* function ends in a terminator and has no terminator before its end
C6_TerminatorCompleteness ==
    pc = "generated" =>
        \A f \in UserFunctions :
            LET fn == gen.module.functions[f]
            IN  /\ fn.blocks # <<>>
                /\ \A b \in 1..Len(fn.blocks) :
                       LET insts == fn.blocks[b].insts
                       IN  /\ insts # <<>>
                           /\ insts[Len(insts)].op \in {"br", "condbr", "ret"}
                           /\ \A i \in 1..(Len(insts) - 1) :
                                  insts[i].op \notin {"br", "condbr", "ret"}

\* a returned module with a function of at least ten blocks in which a
\* loop is nested in a loop and branches of if statements end in break
\* and continue
C6_Witness ==
    /\ pc = "generated"
    /\ \E f \in UserFunctions :
           LET fn == gen.module.functions[f]
           IN  /\ Len(fn.blocks) >= 10
               /\ \E b \in 1..Len(fn.blocks) :
                      /\ fn.blocks[b].name = "then"
                      /\ Len(fn.blocks[b].at) >= 5
                      /\ fn.blocks[b].insts[Len(fn.blocks[b].insts)].op = "br"
               /\ \E b \in 1..Len(fn.blocks) :
                      fn.blocks[b].insts[Len(fn.blocks[b].insts)].op = "ret"

\* the statement of a function body at a position: the i-th item of a
\* block, the then (1) or else (2) branch of an if, the body (1) of a while
RECURSIVE NodeAt(_, _)
NodeAt(node, path) ==
    IF path = <<>> THEN node
    ELSE LET i == Head(path)
         IN  IF node.k = "Block" THEN
                 IF i \in 1..Len(node.items) THEN NodeAt(node.items[i], Tail(path))
                 ELSE NullNode
             ELSE IF node.k = "If" THEN
                 IF i = 1 THEN NodeAt(node.then, Tail(path))
                 ELSE IF i = 2 THEN NodeAt(node.else, Tail(path))
                 ELSE NullNode
             ELSE IF node.k = "While" /\ i = 1 THEN NodeAt(node.body, Tail(path))
             ELSE NullNode

\* the positions of all statements below a node
RECURSIVE PathsOf(_, _)
PathsOf(node, path) ==
    {path} \cup
    (IF node.k = "Block"
     THEN UNION {PathsOf(node.items[i], path \o <<i>>) : i \in 1..Len(node.items)}
     ELSE IF node.k = "If"
     THEN PathsOf(node.then, path \o <<1>>) \cup
          (IF node.else.k # "Null" THEN PathsOf(node.else, path \o <<2>>) ELSE {})
     ELSE IF node.k = "While" THEN PathsOf(node.body, path \o <<1>>)
     ELSE {})

\* the lengths of the prefixes of a position that are while statements
WhilesAround(body, path) ==
    {n \in 0..(Len(path) - 1) : NodeAt(body, SubSeq(path, 1, n)).k = "While"}

\* the position of the innermost while statement around a position
InnermostWhile(body, path) ==
    SubSeq(path, 1, CHOOSE n \in WhilesAround(body, path) :
                        \A m \in WhilesAround(body, path) : m <= n)

\* the block name a break / continue has to reach
JumpTargetName(k) == IF k = "Break" THEN "whileafter" ELSE "whilecond"

\* the instruction of fn at place is an unconditional branch to the block
\* named name that the while statement at position loop created
BranchesTo(fn, place, name, loop) ==
    LET inst == InstAt(fn, place)
    IN  /\ inst.op = "br"
        /\ Len(inst.dest) = 1
        /\ inst.dest[1].name = name
        /\ inst.dest[1].at = loop
        /\ \E b \in 1..Len(fn.blocks) :
               /\ fn.blocks[b].id = inst.dest[1].id
               /\ fn.blocks[b].name = name
               /\ fn.blocks[b].at = loop

\* C7: in a generated function, every break is lowered to one
\* unconditional branch to the whileafter block, and every continue to one
\* unconditional branch to the whilecond block, of the innermost while
\* statement around it; a compilation unit with a break or continue that
\* no while statement of its function encloses is not generated
C7_BreakContinueTargets ==
    pc = "generated" =>
        \A f \in UserFunctions :
            LET fn == gen.module.functions[f]
                body == ast.functions[fn.astIndex].body
            IN  \A path \in PathsOf(body, <<>>) :
                    NodeAt(body, path).k \in {"Break", "Continue"} =>
                        /\ WhilesAround(body, path) # {}
                        /\ Cardinality({pl \in Places(fn) : InstAt(fn, pl).at = path}) = 1
                        /\ \A pl \in Places(fn) :
                               InstAt(fn, pl).at = path =>
                                   BranchesTo(fn, pl,
                                              JumpTargetName(NodeAt(body, path).k),
                                              InnermostWhile(body, path))

\* a generated function with a break and a continue of an outer loop that
\* come after an inner loop with a break and a continue of its own
C7_Witness ==
    /\ pc = "generated"
    /\ \E f \in UserFunctions :
           LET fn == gen.module.functions[f]
               body == ast.functions[fn.astIndex].body
           IN  \E p1, p2, p3, p4 \in PathsOf(body, <<>>) :
                   /\ NodeAt(body, p1).k = "Break" /\ NodeAt(body, p2).k = "Continue"
                   /\ NodeAt(body, p3).k = "Break" /\ NodeAt(body, p4).k = "Continue"
                   /\ InnermostWhile(body, p1) = InnermostWhile(body, p2)
                   /\ InnermostWhile(body, p3) = InnermostWhile(body, p4)
                   /\ Len(InnermostWhile(body, p1)) < Len(InnermostWhile(body, p3))
                   /\ \E pl \in Places(fn) :
                          /\ InstAt(fn, pl).at = p1
                          /\ InstAt(fn, pl).id >
                                 CHOOSE n \in 1..fn.nextId :
                                     \E q \in Places(fn) :
                                         InstAt(fn, q).at = p3 /\ InstAt(fn, q).id = n

\* the stack cells of the array parameters of a generated function: the
\* cell of parameter k is the one the k-th argument is stored to
ArrayParamCells(fn) ==
    {InstAt(fn, pl).args[2] : pl \in
        {pl \in Places(fn) :
            /\ InstAt(fn, pl).op = "store"
            /\ InstAt(fn, pl).args[1].v = "arg"
            /\ ast.functions[fn.astIndex].params[InstAt(fn, pl).args[1].id].isArray}}

\* the places of the loads of a cell
LoadsOf(fn, cell) ==
    {pl \in Places(fn) : InstAt(fn, pl).op = "load" /\ InstAt(fn, pl).args[1] = cell}

\* the instruction at place has the value as an operand
Uses(fn, place, val) ==
    \E a \in 1..Len(InstAt(fn, place).args) : InstAt(fn, place).args[a] = val

\* the values of the loads of the cells of the array parameters
PreloadedPointers(fn) ==
    {Value("inst", PtrTy, InstAt(fn, pl).id, "load", NoType) :
        pl \in UNION {LoadsOf(fn, cell) : cell \in ArrayParamCells(fn)}}

\* C8: in every function of a generated module, the cell of each array
\* parameter is loaded exactly once, by a load of the entry block that no
\* instruction of the function body precedes; no instruction of the
\* function body has the cell as an operand, and every pointer that the
\* function reads from memory and then uses is such a loaded pointer
C8_ArrayParamPreload ==
    pc = "generated" =>
        \A f \in UserFunctions :
            LET fn == gen.module.functions[f]
                params == ast.functions[fn.astIndex].params
            IN  /\ Cardinality(ArrayParamCells(fn)) =
                       Cardinality({k \in 1..Len(params) : params[k].isArray})
                /\ \A cell \in ArrayParamCells(fn) :
                       /\ Cardinality(LoadsOf(fn, cell)) = 1
                       /\ \A pl \in LoadsOf(fn, cell) :
                              /\ pl[1] = 1
                              /\ fn.blocks[1].name = "entry"
                              /\ \A i \in 1..pl[2] : fn.blocks[1].insts[i].at = PrologueAt
                       /\ \A pl \in Places(fn) :
                              InstAt(fn, pl).at # PrologueAt => ~Uses(fn, pl, cell)
                /\ \A pl \in Places(fn) :
                       \A a \in 1..Len(InstAt(fn, pl).args) :
                           LET val == InstAt(fn, pl).args[a]
                           IN  (val.v = "inst" /\ val.c = "load" /\ IsPointerTy(val.ty))
                                   => val \in PreloadedPointers(fn)

\* a generated module with a function that has two array parameters and
\* reads one and writes the other through the loaded pointers, one that
\* accesses its array parameter in both modes inside a loop, and a call
\* that passes the loaded pointer on
C8_Witness ==
    /\ pc = "generated"
    /\ \E f \in UserFunctions :
           LET fn == gen.module.functions[f]
           IN  /\ Cardinality(ArrayParamCells(fn)) = 2
               /\ \E pl \in Places(fn), ptr \in PreloadedPointers(fn) :
                      InstAt(fn, pl).op = "call" /\ Uses(fn, pl, ptr)
               /\ \A ptr \in PreloadedPointers(fn) :
                      \E pl \in Places(fn) :
                          InstAt(fn, pl).op = "gep" /\ InstAt(fn, pl).args[1] = ptr
    /\ \E f \in UserFunctions :
           LET fn == gen.module.functions[f]
           IN  \E ptr \in PreloadedPointers(fn), p1, p2 \in Places(fn) :
                   /\ p1[1] > 1 /\ p2[1] > 1
                   /\ InstAt(fn, p1).op = "gep" /\ InstAt(fn, p1).args[1] = ptr
                   /\ InstAt(fn, p2).op = "gep" /\ InstAt(fn, p2).args[1] = ptr
                   /\ \E q \in Places(fn) :
                          InstAt(fn, q).op = "load" /\ InstAt(fn, q).args[1].id = InstAt(fn, p1).id
                   /\ \E q \in Places(fn) :
                          InstAt(fn, q).op = "store" /\ InstAt(fn, q).args[2].id = InstAt(fn, p2).id

\* the names that declareLibraryFunctions gives to Function::Create
LibraryNames == {LibraryDeclarations[i].name : i \in 1..Len(LibraryDeclarations)}

\* C9: in a generated module, main has external linkage, every other
\* function generated from a function definition has internal linkage,
\* whatever its name, and every runtime library function is declared with
\* external linkage
C9_LinkagePolicy ==
    pc = "generated" =>
        /\ \A f \in 1..Len(gen.module.functions) :
               LET fn == gen.module.functions[f]
               IN  IF ~fn.user THEN fn.linkage = "external"
                   ELSE IF ast.functions[fn.astIndex].name = "main"
                   THEN fn.linkage = "external"
                   ELSE fn.linkage = "internal"
        /\ \A name \in LibraryNames :
               \E f \in 1..Len(gen.module.functions) :
                   /\ gen.module.functions[f].name = name
                   /\ ~gen.module.functions[f].user
                   /\ gen.module.functions[f].blocks = <<>>
                   /\ gen.module.functions[f].linkage = "external"
        /\ \A i \in 1..Len(ast.functions) :
               \E f \in UserFunctions : gen.module.functions[f].astIndex = i

\* a generated module with main and with a function whose definition has
\* the name of a runtime library function, which is called
C9_Witness ==
    /\ pc = "generated"
    /\ \E f, m \in UserFunctions, l \in 1..Len(gen.module.functions) :
           /\ ast.functions[gen.module.functions[f].astIndex].name \in LibraryNames
           /\ gen.module.functions[f].linkage = "internal"
           /\ gen.module.functions[m].name = "main"
           /\ gen.module.functions[m].linkage = "external"
           /\ gen.module.functions[l].name =
                  ast.functions[gen.module.functions[f].astIndex].name
           /\ gen.module.functions[l].linkage = "external"
           /\ \E pl \in Places(gen.module.functions[m]) :
                  /\ InstAt(gen.module.functions[m], pl).op = "call"
                  /\ InstAt(gen.module.functions[m], pl).extra = gen.module.functions[l].name

\* the functions of the compilation unit that are named main
Mains == {i \in 1..Len(ast.functions) : ast.functions[i].name = "main"}

\* C10: generate() returns a module only for a compilation unit with
\* exactly one function named main, which has no parameters and returns
\* int; when it fails with one of the three errors about main, the
\* compilation unit has the defect that the error names
C10_MainChecks ==
    /\ pc = "generated" =>
           /\ Cardinality(Mains) = 1
           /\ \A i \in Mains : /\ ast.functions[i].params = <<>>
                               /\ ast.functions[i].retType = IntType
    /\ (pc = "failed" /\ gen.err = "Multiple main functions defined") =>
           Cardinality(Mains) >= 2
    /\ (pc = "failed" /\ gen.err = "No main function defined") => Mains = {}
    /\ (pc = "failed" /\ gen.err = "main function must have no parameters and return int") =>
           \E i \in Mains : \/ ast.functions[i].params # <<>>
                            \/ ast.functions[i].retType # IntType

\* a module was generated for a compilation unit of three functions, the
\* last of which is the only main
C10_Witness ==
    /\ pc = "generated"
    /\ Len(ast.functions) = 3
    /\ Mains = {3}
    /\ gen.hasMainFunc
    /\ gen.module.functions[Len(gen.module.functions)].name = "main"

(***************************************************************************)
(* Properties of declarations, initializers and assignments                *)
(***************************************************************************)
\* the names declared at global scope of a compilation unit, by entity:
\* <<"decl", i, j>> is definition j of declaration i, <<"func", i>> is
\* function i
GlobalEntities(unit) ==
    {<<"decl", i, j>> : i \in 1..Len(unit.decls), j \in 1..2}
        \cup {<<"func", i, 0>> : i \in 1..Len(unit.functions)}
EntityDeclared(unit, e) ==
    e[1] = "func" \/ e[3] <= Len(unit.decls[e[2]].defs)
EntityName(unit, e) ==
    IF e[1] = "func" THEN unit.functions[e[2]].name
    ELSE unit.decls[e[2]].defs[e[3]].name
GlobalNameClash(unit) ==
    \E e1, e2 \in GlobalEntities(unit) :
        /\ e1 # e2
        /\ EntityDeclared(unit, e1) /\ EntityDeclared(unit, e2)
        /\ EntityName(unit, e1) = EntityName(unit, e2)

\* C11: no two entities declared at global scope share a name.  When two
\* global variables or constants, a function and a global variable or
\* constant, or two user functions of the program have the same name,
\* generation does not deliver a module: it fails.
C11_GlobalNamesUnique ==
    (pc \in {"generated", "failed"} /\ GlobalNameClash(src)) => pc = "failed"

\* the stores of a generated function whose address is a cell (an alloca
\* or a global variable) of vector type
VectorStores(fn) ==
    {pl \in Places(fn) :
        /\ InstAt(fn, pl).op = "store"
        /\ IsVectorTy(AllocatedTypeOf(InstAt(fn, pl).args[2]))}

\* C12: only vector-typed values are assigned to a vector name.  A program
\* that assigns a scalar or an array to a bare vector name is rejected, so
\* in a generated module every store into a vector cell stores a value of
\* the type of the cell.
C12_VectorAssignRejected ==
    pc = "generated" =>
        \A f \in UserFunctions :
            \A pl \in VectorStores(gen.module.functions[f]) :
                LET inst == InstAt(gen.module.functions[f], pl)
                IN  inst.args[1].ty = AllocatedTypeOf(inst.args[2])

\* the scalar of a constant initializer at the indices idxs (from 0)
RECURSIVE ConstantElement(_, _)
ConstantElement(c, idxs) ==
    IF c.v = "zeroinit" THEN 0
    ELSE IF idxs = <<>> THEN c.c
    ELSE ConstantElement(c.elems[idxs[1] + 1], Tail(idxs))

\* the indices of the scalar at row-major position p of an array
RECURSIVE RowMajorIndices(_, _)
RowMajorIndices(p, shape) ==
    IF shape = <<>> THEN <<>>
    ELSE <<p \div ElementCount(Tail(shape))>>
             \o RowMajorIndices(p % ElementCount(Tail(shape)), Tail(shape))

\* what an initializer list asks for: a scalar goes to the next scalar
\* position in row-major order; a nested list initializes one sub-aggregate
\* of sub scalars, the next that no scalar has gone to, and is padded with
\* zeros; every position that is not reached is zero.  acc maps the
\* positions 0 .. (element count) - 1 to values.
RECURSIVE ListedFrom(_, _, _, _, _)
ListedFrom(vals, i, cursor, sub, acc) ==
    IF i > Len(vals) THEN acc
    ELSE IF vals[i].k = "ExprInit"
    THEN ListedFrom(vals, i + 1, cursor + 1, sub,
                    [acc EXCEPT ![cursor] = vals[i].expr.v])
    ELSE LET start == ((cursor + sub - 1) \div sub) * sub
             nested == vals[i].vals
         IN  ListedFrom(vals, i + 1, start + sub, sub,
                 [p \in DOMAIN acc |->
                     IF p \in start..(start + Len(nested) - 1)
                     THEN nested[p - start + 1].expr.v ELSE acc[p]])
Listed(vals, shape) ==
    ListedFrom(vals, 1, 0, ElementCount(Tail(shape)),
               [p \in 0..(ElementCount(shape) - 1) |-> 0])

\* the global arrays of the program that have an initializer list: the
\* definition and the global variable made for it
ListedGlobalArrays ==
    {d \in UNION {{unitDecl.defs[j] : j \in 1..Len(unitDecl.defs)} :
                     unitDecl \in {ast.decls[i] : i \in 1..Len(ast.decls)}} :
        d.sizes # <<>> /\ d.init.k = "ListInit" /\ d.init.vals # <<>>}
ShapeOf(def) == [i \in 1..Len(def.sizes) |-> def.sizes[i].v]
InitializerOf(name) ==
    (CHOOSE gv \in {gen.module.globals[i] : i \in 1..Len(gen.module.globals)} :
         gv.srcName = name).init

\* C13: a global array with an initializer list holds the listed values in
\* row-major order and zero at every position the list does not cover,
\* for every shape and list; a nested list initializes exactly one
\* sub-aggregate and is padded independently.
C13_GlobalArrayInit ==
    pc = "generated" =>
        \A d \in ListedGlobalArrays :
            \A p \in 0..(ElementCount(ShapeOf(d)) - 1) :
                ConstantElement(InitializerOf(d.name), RowMajorIndices(p, ShapeOf(d)))
                    = Listed(d.init.vals, ShapeOf(d))[p]

(***************************************************************************)
(* Properties of the folder on operators and expression positions          *)
(***************************************************************************)
\* C14: the folder never folds a float modulo.  When the program returns
\* `a % b` with two float literals, the returned expression is still that
\* binary expression after folding.
C14_FloatModNotFolded ==
    (/\ foldCalls >= 1
     /\ IsReturnProgram(src)
     /\ ReturnedExpr(src).k = "Binary"
     /\ ReturnedExpr(src).op = "MOD"
     /\ ReturnedExpr(src).lhs.k = "FloatConst"
     /\ ReturnedExpr(src).rhs.k = "FloatConst")
    => ReturnedExpr(ast) = ReturnedExpr(src)

\* the expression and all expressions below it
RECURSIVE SubExprs(_)
SubExprs(e) ==
    CASE e.k = "Null" -> {}
      [] e.k = "Binary" -> {e} \cup SubExprs(e.lhs) \cup SubExprs(e.rhs)
      [] e.k = "Unary" -> {e} \cup SubExprs(e.operand)
      [] e.k = "Call" -> {e} \cup UNION {SubExprs(e.args[i]) : i \in 1..Len(e.args)}
      [] e.k = "LVal" -> {e} \cup UNION {SubExprs(e.indices[i]) : i \in 1..Len(e.indices)}
      [] OTHER -> {e}

\* the expressions of an initializer, of a declaration, of a statement or
\* block item (the target of an assignment included), of a unit
RECURSIVE InitValExprs(_)
InitValExprs(initVal) ==
    CASE initVal.k = "ExprInit" -> SubExprs(initVal.expr)
      [] initVal.k = "ListInit" ->
             UNION {InitValExprs(initVal.vals[i]) : i \in 1..Len(initVal.vals)}
      [] OTHER -> {}
DeclExprs(decl) ==
    UNION {InitValExprs(decl.defs[i].init) : i \in 1..Len(decl.defs)}
RECURSIVE StmtExprs(_)
StmtExprs(stmt) ==
    CASE stmt.k \in {"VarDecl", "ConstDecl"} -> DeclExprs(stmt)
      [] stmt.k = "Assign" -> SubExprs(stmt.lval) \cup SubExprs(stmt.expr)
      [] stmt.k = "ExprStmt" -> SubExprs(stmt.expr)
      [] stmt.k = "Return" -> SubExprs(stmt.value)
      [] stmt.k = "If" ->
             SubExprs(stmt.cond) \cup StmtExprs(stmt.then) \cup StmtExprs(stmt.else)
      [] stmt.k = "While" -> SubExprs(stmt.cond) \cup StmtExprs(stmt.body)
      [] stmt.k = "Block" ->
             UNION {StmtExprs(stmt.items[i]) : i \in 1..Len(stmt.items)}
      [] OTHER -> {}
UnitExprs(unit) ==
    UNION {DeclExprs(unit.decls[i]) : i \in 1..Len(unit.decls)}
        \cup UNION {StmtExprs(unit.functions[i].body) : i \in 1..Len(unit.functions)}

\* a subtree the folder is to replace: a binary operation on two integer
\* literals or on two float literals (float modulo left aside), a unary
\* operator on a literal
Eligible(e) ==
    \/ e.k = "Binary" /\ e.lhs.k = "IntConst" /\ e.rhs.k = "IntConst"
    \/ e.k = "Binary" /\ e.lhs.k = "FloatConst" /\ e.rhs.k = "FloatConst"
           /\ e.op # "MOD"
    \/ e.k = "Unary" /\ e.operand.k \in {"IntConst", "FloatConst"}

\* C15: when the optimizer has finished, no eligible subtree remains in
\* any expression position of the AST: values, conditions, indices of
\* lvalues (those of the target of an assignment too), call arguments and
\* initializer list elements.
C15_NoEligibleLeft ==
    pc = "optimized" => \A e \in UnitExprs(ast) : ~Eligible(e)

\* the expressions of a statement or block item that stand in a value
\* position: all but the controlling expressions of if and while
RECURSIVE ValueExprs(_)
ValueExprs(stmt) ==
    CASE stmt.k = "If" -> ValueExprs(stmt.then) \cup ValueExprs(stmt.else)
      [] stmt.k = "While" -> ValueExprs(stmt.body)
      [] stmt.k = "Block" ->
             UNION {ValueExprs(stmt.items[i]) : i \in 1..Len(stmt.items)}
      [] OTHER -> StmtExprs(stmt)
IsLogical(e) ==
    \/ e.k = "Binary" /\ e.op \in {"AND", "OR"}
    \/ e.k = "Unary" /\ e.op = "NOT"
UsesLogicalAsValue(unit) ==
    \E e \in UNION {DeclExprs(unit.decls[i]) : i \in 1..Len(unit.decls)}
                \cup UNION {ValueExprs(unit.functions[i].body) :
                                i \in 1..Len(unit.functions)} :
        IsLogical(e)

\* C16: `&&`, `||` and `!` are accepted inside if/while conditions only.
\* The pipeline (folding, then generation) rejects every program that uses
\* one of them in a value position, with literal operands or not.
C16_LogicalOnlyInConditions ==
    (pc \in {"generated", "failed"} /\ UsesLogicalAsValue(src)) => pc = "failed"

\* the bitwise and / or instructions of a generated function
BitwiseLogic(fn) ==
    {pl \in Places(fn) : InstAt(fn, pl).op \in {"and", "or"}}

\* C17: in condition lowering `&&` and `||` are the bitwise and / or of
\* boolean values: both operands of every and / or instruction of a
\* generated module have been reduced to a boolean (i1), so that the
\* result is true iff both are non-zero, or either is.
C17_LogicalOnBooleans ==
    pc = "generated" =>
        \A f \in UserFunctions :
            \A pl \in BitwiseLogic(gen.module.functions[f]) :
                \A a \in 1..2 : InstAt(gen.module.functions[f], pl).args[a].ty = I1

\* the stores of a generated function into a scalar variable
ScalarStores(fn) ==
    {pl \in Places(fn) :
        /\ InstAt(fn, pl).op = "store"
        /\ AllocatedTypeOf(InstAt(fn, pl).args[2]) \in {I32, FloatTy}}

\* C18: the value an assignment stores into a scalar variable has been
\* converted to the type of the variable: every store of a generated
\* module into a scalar cell stores a value of the type of that cell.
C18_StoredTypeIsCellType ==
    pc = "generated" =>
        \A f \in UserFunctions :
            \A pl \in ScalarStores(gen.module.functions[f]) :
                LET inst == InstAt(gen.module.functions[f], pl)
                IN  inst.args[1].ty = AllocatedTypeOf(inst.args[2])

\* the names a declaration list declares, those of constants, of arrays
DeclaredNames(decls, kinds, arraysOnly) ==
    {decls[i].defs[j].name : <<i, j>> \in
        {d \in (1..Len(decls)) \X (1..2) :
            /\ decls[d[1]].k \in kinds
            /\ d[2] <= Len(decls[d[1]].defs)
            /\ arraysOnly => decls[d[1]].defs[d[2]].sizes # <<>>}}
\* the declarations among the items of a function body
LocalDecls(func) ==
    SelectSeq(func.body.items, LAMBDA item : item.k \in {"VarDecl", "ConstDecl"})
ParamNames(func) == {func.params[i].name : i \in 1..Len(func.params)}
\* an assignment statement of func whose target names a constant, or is
\* the bare name of an array
ForbiddenTarget(unit, func, stmt) ==
    LET name == stmt.lval.name
        hidden == DeclaredNames(LocalDecls(func), {"VarDecl"}, FALSE) \cup ParamNames(func)
        constants == DeclaredNames(LocalDecls(func), {"ConstDecl"}, FALSE)
                        \cup (DeclaredNames(unit.decls, {"ConstDecl"}, FALSE) \ hidden)
        arrays == DeclaredNames(LocalDecls(func), {"VarDecl", "ConstDecl"}, TRUE)
                        \cup (DeclaredNames(unit.decls, {"VarDecl", "ConstDecl"}, TRUE) \ hidden)
    IN  name \in constants \/ (stmt.lval.indices = <<>> /\ name \in arrays)
AssignsForbidden(unit) ==
    \E f \in 1..Len(unit.functions) :
        \E i \in 1..Len(unit.functions[f].body.items) :
            /\ unit.functions[f].body.items[i].k = "Assign"
            /\ ForbiddenTarget(unit, unit.functions[f], unit.functions[f].body.items[i])

\* C19: every assignment whose target names a constant (a scalar constant,
\* an element of a constant array, an element of a constant vector) or is
\* a bare array name is rejected: generation of a program that has one
\* fails.
C19_ConstantTargetRejected ==
    (pc \in {"generated", "failed"} /\ AssignsForbidden(src)) => pc = "failed"

\* the instruction of fn that defines the value val
DefiningInst(fn, val) ==
    InstAt(fn, CHOOSE pl \in Places(fn) : InstAt(fn, pl).id = val.id)
\* the constant indices that lead from an alloca to the element a pointer
\* points to, through the getelementptr instructions in between
RECURSIVE ElementIndices(_, _)
ElementIndices(fn, ptr) ==
    IF ptr.v = "inst" /\ ptr.c = "gep"
    THEN ElementIndices(fn, DefiningInst(fn, ptr).args[1])
             \o <<DefiningInst(fn, ptr).args[3].c>>
    ELSE <<>>
\* the local arrays of function number f of the program that have a
\* non-empty initializer list: the positions of their declarations
ListedLocalArrays(f) ==
    {i \in 1..Len(ast.functions[f].body.items) :
        LET item == ast.functions[f].body.items[i]
        IN  /\ item.k = "VarDecl"
            /\ item.defs[1].sizes # <<>>
            /\ item.defs[1].init.k = "ListInit"
            /\ item.defs[1].init.vals # <<>>}
\* the constants that the code of the declaration at position i stores
\* into the element idxs of its array
StoredInto(fn, i, idxs) ==
    {InstAt(fn, pl).args[1].c : pl \in
        {q \in Places(fn) :
            /\ InstAt(fn, q).op = "store"
            /\ InstAt(fn, q).at = <<i>>
            /\ ElementIndices(fn, InstAt(fn, q).args[2]) = idxs}}

\* C20: a local array declared with a non-empty initializer list gets the
\* supplied values at their positions and zero in every remaining
\* element: the code of the declaration stores into every element of the
\* array, the listed value or zero.
C20_LocalArrayZeroFilled ==
    pc = "generated" =>
        \A f \in UserFunctions :
            LET fn == gen.module.functions[f]
            IN  \A i \in ListedLocalArrays(fn.astIndex) :
                    LET def == ast.functions[fn.astIndex].body.items[i].defs[1]
                        shape == ShapeOf(def)
                    IN  \A p \in 0..(ElementCount(shape) - 1) :
                            StoredInto(fn, i, RowMajorIndices(p, shape))
                                = {Listed(def.init.vals, shape)[p]}

(***************************************************************************)
(* Properties of local storage, scopes and constant expressions            *)
(***************************************************************************)
\* the stack cells of a generated function
Allocas(fn) == {pl \in Places(fn) : InstAt(fn, pl).op = "alloca"}

\* C21: the stack cell of every local variable is allocated in the entry
\* block of its function, also when the variable is declared in the body
\* of a while loop or in a branch of an if statement.
C21_AllocasInEntryBlock ==
    pc = "generated" =>
        \A f \in UserFunctions :
            \A pl \in Allocas(gen.module.functions[f]) :
                gen.module.functions[f].blocks[pl[1]].name = "entry"

\* the sequences of block items that are lowered in a scope frame of their
\* own: the items of every block of a statement
RECURSIVE FramesOf(_)
FramesOf(stmt) ==
    CASE stmt.k = "Block" ->
             {stmt.items} \cup UNION {FramesOf(stmt.items[i]) : i \in 1..Len(stmt.items)}
      [] stmt.k = "If" -> FramesOf(stmt.then) \cup FramesOf(stmt.else)
      [] stmt.k = "While" -> FramesOf(stmt.body)
      [] OTHER -> {}
\* the definitions that the declarations among items make, by position
DefPositions(items) ==
    {d \in (1..Len(items)) \X (1..2) :
        /\ items[d[1]].k \in {"VarDecl", "ConstDecl"}
        /\ d[2] <= Len(items[d[1]].defs)}
\* two declarations among the items of one frame bind the same name
DeclaredTwice(items) ==
    \E d1, d2 \in DefPositions(items) :
        d1 # d2 /\ items[d1[1]].defs[d1[2]].name = items[d2[1]].defs[d2[2]].name
RedeclarationInFrame(unit) ==
    \/ GlobalNameClash(unit)
    \/ \E f \in 1..Len(unit.functions) :
           \/ \E frame \in FramesOf(unit.functions[f].body) : DeclaredTwice(frame)
           \/ \E p1, p2 \in 1..Len(unit.functions[f].params) :
                  p1 # p2 /\ unit.functions[f].params[p1].name
                                 = unit.functions[f].params[p2].name
RedeclarationErrors ==
    {"Redeclaration of symbol", "Redeclaration of global variable",
     "Redeclaration of global constant"}

\* C22: a declaration is rejected as a redeclaration only when its name is
\* already bound in the current scope frame; a name bound only in an
\* enclosing frame (outer block, parameters, global scope) is shadowed.
C22_RedeclarationOnlyInFrame ==
    (pc = "failed" /\ gen.err \in RedeclarationErrors) => RedeclarationInFrame(src)

\* the value of a literal initializer of an integer constant: n or -n
IsIntInit(init) ==
    /\ init.k = "ExprInit"
    /\ \/ init.expr.k = "IntConst"
       \/ init.expr.k = "Unary" /\ init.expr.op = "MINUS" /\ init.expr.operand.k = "IntConst"
IntInitValue(init) ==
    IF init.expr.k = "IntConst" THEN init.expr.v ELSE 0 - init.expr.operand.v
\* the global integer constants that unit declares before the global
\* declaration number upTo: the positions of their definitions
IntConstDefs(unit, upTo) ==
    {d \in (1..Len(unit.decls)) \X (1..2) :
        /\ d[1] < upTo
        /\ unit.decls[d[1]].k = "ConstDecl"
        /\ unit.decls[d[1]].type = IntType
        /\ d[2] <= Len(unit.decls[d[1]].defs)
        /\ unit.decls[d[1]].defs[d[2]].sizes = <<>>
        /\ IsIntInit(unit.decls[d[1]].defs[d[2]].init)}
IntConstValue(unit, upTo, name) ==
    LET d == CHOOSE d \in IntConstDefs(unit, upTo) :
                 unit.decls[d[1]].defs[d[2]].name = name
    IN  IntInitValue(unit.decls[d[1]].defs[d[2]].init)
IntConstNames(unit, upTo) ==
    {unit.decls[d[1]].defs[d[2]].name : d \in IntConstDefs(unit, upTo)}

\* what a constant integer expression denotes: an integer, or nothing when
\* it divides by zero or refers to a name that is local or not a global
\* integer constant
NoSize == [ok |-> FALSE, v |-> 0]
SizeValue(v) == [ok |-> TRUE, v |-> v]
RECURSIVE RefConstExpr(_, _, _, _)
RefConstExpr(expr, unit, upTo, locals) ==
    CASE expr.k = "IntConst" -> SizeValue(expr.v)
      [] expr.k = "LVal" ->
             IF expr.indices = <<>> /\ expr.name \notin locals
                /\ expr.name \in IntConstNames(unit, upTo)
             THEN SizeValue(IntConstValue(unit, upTo, expr.name))
             ELSE NoSize
      [] expr.k = "Unary" /\ expr.op \in {"PLUS", "MINUS"} ->
             LET operand == RefConstExpr(expr.operand, unit, upTo, locals)
             IN  IF ~operand.ok THEN NoSize
                 ELSE SizeValue(IF expr.op = "MINUS" THEN 0 - operand.v ELSE operand.v)
      [] expr.k = "Binary" /\ expr.op \in {"ADD", "SUB", "MUL", "DIV", "MOD"} ->
             LET lhs == RefConstExpr(expr.lhs, unit, upTo, locals)
                 rhs == RefConstExpr(expr.rhs, unit, upTo, locals)
             IN  IF ~lhs.ok \/ ~rhs.ok THEN NoSize
                 ELSE CASE expr.op = "ADD" -> SizeValue(lhs.v + rhs.v)
                        [] expr.op = "SUB" -> SizeValue(lhs.v - rhs.v)
                        [] expr.op = "MUL" -> SizeValue(lhs.v * rhs.v)
                        [] expr.op = "DIV" -> IF rhs.v = 0 THEN NoSize
                                              ELSE SizeValue(TruncDiv(lhs.v, rhs.v))
                        [] expr.op = "MOD" -> IF rhs.v = 0 THEN NoSize
                                              ELSE SizeValue(TruncRem(lhs.v, rhs.v))
      [] OTHER -> NoSize

\* the array declarations of a program, global (f = 0) or among the items
\* of the body of function f: f, the position i, the declaration
SizedDecls(unit) ==
    {[f |-> 0, i |-> i, decl |-> unit.decls[i]] : i \in
        {j \in 1..Len(unit.decls) : unit.decls[j].defs[1].sizes # <<>>}}
    \cup UNION {
        {[f |-> f, i |-> i, decl |-> unit.functions[f].body.items[i]] : i \in
            {j \in 1..Len(unit.functions[f].body.items) :
                /\ unit.functions[f].body.items[j].k \in {"VarDecl", "ConstDecl"}
                /\ unit.functions[f].body.items[j].defs[1].sizes # <<>>}}
        : f \in 1..Len(unit.functions)}
\* the names bound inside function f before item i of its body
NamesBefore(unit, d) ==
    IF d.f = 0 THEN {}
    ELSE ParamNames(unit.functions[d.f])
         \cup DeclaredNames(SelectSeq(SubSeq(unit.functions[d.f].body.items, 1, d.i - 1),
                                      LAMBDA item : item.k \in {"VarDecl", "ConstDecl"}),
                            {"VarDecl", "ConstDecl"}, FALSE)
\* what the dimensions of the array declared at d denote
RefSizes(unit, d) ==
    [s \in 1..Len(d.decl.defs[1].sizes) |->
        RefConstExpr(d.decl.defs[1].sizes[s], unit,
                     IF d.f = 0 THEN d.i ELSE Len(unit.decls) + 1, NamesBefore(unit, d))]
ArraySizeErrors ==
    {"Array size must be non-negative", "Array size must be a constant",
     "Array size must be a constant with value", "Array size must be an integer constant",
     "Division by zero in constant expression", "Modulo by zero in constant expression",
     "Unsupported operator in constant expression",
     "Unsupported unary operator in constant expression",
     "Array size must be a constant integer expression",
     "Array size must be a constant expression", "Variable not defined"}

\* C23: the evaluation of the dimension of a variable array fails with an
\* error when the expression divides or takes a remainder by zero, has a
\* negative value, or refers to a name that is not constant, is declared
\* inside a function (a constant declared in a function body included), or
\* is a constant whose initializer is no integer.
C23_ConstEvaluatorRejects ==
    (/\ pc \in {"generated", "failed"}
     /\ \E d \in SizedDecls(src) :
            /\ d.decl.k = "VarDecl"
            /\ \E s \in 1..Len(d.decl.defs[1].sizes) :
                   ~RefSizes(src, d)[s].ok \/ RefSizes(src, d)[s].v < 0)
    => (pc = "failed" /\ gen.err \in ArraySizeErrors)

\* the dimensions of an array type, outermost first
RECURSIVE DimsOf(_)
DimsOf(type) == IF IsArrayTy(type) THEN <<type.n>> \o DimsOf(type.elem) ELSE <<>>
\* the type of the array that the generated module holds for the
\* declaration d: of the global variable made for a global declaration or
\* a constant, of the stack cell made for a local variable
GeneratedArrayType(d) ==
    IF d.f = 0 \/ d.decl.k = "ConstDecl"
    THEN (CHOOSE gv \in {gen.module.globals[i] : i \in 1..Len(gen.module.globals)} :
              gv.srcName = d.decl.defs[1].name).type
    ELSE LET fn == gen.module.functions[CHOOSE f \in UserFunctions :
                                            gen.module.functions[f].astIndex = d.f]
         IN  InstAt(fn, CHOOSE pl \in Allocas(fn) : InstAt(fn, pl).at = <<d.i>>).extra
\* every dimension of the declaration d denotes a non-negative integer
DenotesSizes(unit, d) ==
    \A s \in 1..Len(d.decl.defs[1].sizes) :
        RefSizes(unit, d)[s].ok /\ RefSizes(unit, d)[s].v >= 0

\* C24: an array dimension built from integer literals, previously
\* declared global integer constants, unary + - and binary + - * / % that
\* divides by no zero and has a non-negative value is accepted and is
\* that value, whatever the sign of its sub-expressions and constants, for
\* variable and constant arrays, global and local.
C24_ArraySizeValue ==
    pc \in {"generated", "failed"} =>
        \A d \in {e \in SizedDecls(src) : DenotesSizes(src, e)} :
            /\ gen.err \notin ArraySizeErrors
            /\ pc = "generated" =>
                   DimsOf(GeneratedArrayType(d))
                       = [s \in 1..Len(d.decl.defs[1].sizes) |-> RefSizes(src, d)[s].v]

(***************************************************************************)
(* Properties of returns, calls and indexing                               *)
(***************************************************************************)
\* the return statements of a function, by their positions in its body
ReturnPaths(func) ==
    {p \in PathsOf(func.body, <<>>) : NodeAt(func.body, p).k = "Return"}
\* a return with a value in a void function, or without one in a function
\* that is not void
ReturnMismatch(func, stmt) ==
    (func.retType.k = "VOID") # (stmt.value.k = "Null")
HasReturnMismatch(unit) ==
    \E f \in 1..Len(unit.functions) :
        \E p \in ReturnPaths(unit.functions[f]) :
            ReturnMismatch(unit.functions[f], NodeAt(unit.functions[f].body, p))
ReturnErrors ==
    {"Void function cannot return a value", "Non-void function must return a value"}
\* the ret instructions that the statement at position p of fn was lowered to
RetsAt(fn, p) ==
    {pl \in Places(fn) : InstAt(fn, pl).op = "ret" /\ InstAt(fn, pl).at = p}
\* the body of func ends in a statement that leaves the insertion block
\* open: the function falls off its end
FallsOff(func) ==
    \/ func.body.items = <<>>
    \/ func.body.items[Len(func.body.items)].k
           \in {"VarDecl", "ConstDecl", "Assign", "ExprStmt", "If", "While"}
\* programs whose returns give an int for a float and a float for an int
ConvertedReturns == {PFloatReturnsInt, PIntReturnsFloat}

\* C25: a return with a value in a void function and a bare return in a
\* function that is not void are fatal; any other return returns a value
\* of the declared return type (int converted to float, float to int);
\* a function that falls off its end is closed with `ret void` when it is
\* void and with the return of an undefined value otherwise, not rejected.
C25_ReturnLowering ==
    /\ (pc \in {"generated", "failed"} /\ HasReturnMismatch(ast)) => pc = "failed"
    /\ (pc = "failed" /\ gen.err \in ReturnErrors) => HasReturnMismatch(ast)
    /\ (pc \in {"generated", "failed"} /\ src \in ConvertedReturns) => pc = "generated"
    /\ pc = "generated" =>
           \A f \in UserFunctions :
               LET fn == gen.module.functions[f]
                   func == ast.functions[fn.astIndex]
               IN  /\ \A p \in ReturnPaths(func) :
                          \A pl \in RetsAt(fn, p) :
                              IF NodeAt(func.body, p).value.k = "Null"
                              THEN InstAt(fn, pl).args = <<>>
                              ELSE /\ Len(InstAt(fn, pl).args) = 1
                                   /\ InstAt(fn, pl).args[1].ty = fn.retType
                   /\ \A pl \in RetsAt(fn, EpilogueAt) :
                          InstAt(fn, pl).args =
                              IF IsVoidTy(fn.retType) THEN <<>>
                              ELSE <<UndefValue(fn.retType)>>
                   /\ FallsOff(func) => RetsAt(fn, EpilogueAt) # {}

\* generated programs in which an int is returned as a float, a float as
\* an int, and functions fall off their ends
C25_Witness ==
    /\ pc = "generated"
    /\ src \in ConvertedReturns \cup {PVoidFallsOff, PIntFallsOff, PBranchFallsOff}
    /\ \E f \in UserFunctions :
           \E pl \in Places(gen.module.functions[f]) :
               /\ InstAt(gen.module.functions[f], pl).op = "ret"
               /\ \/ InstAt(gen.module.functions[f], pl).at = EpilogueAt
                  \/ /\ InstAt(gen.module.functions[f], pl).args # <<>>
                     /\ InstAt(gen.module.functions[f], pl).args[1].v \in {"constfp", "inst"}

\* the calls of a unit
CallsOf(unit) == {e \in UnitExprs(unit) : e.k = "Call"}
\* the callee's declaration: a function of the unit, or a library function
IsUserFunction(unit, name) ==
    \E f \in 1..Len(unit.functions) : unit.functions[f].name = name
IsLibraryName(name) ==
    \E i \in 1..Len(LibraryDeclarations) : name \in LibraryKeys(LibraryDeclarations[i].name)
LibraryDeclarationOf(name) ==
    LibraryDeclarations[CHOOSE i \in 1..Len(LibraryDeclarations) :
                            name \in LibraryKeys(LibraryDeclarations[i].name)]
CalleeIsVariadic(unit, name) ==
    ~IsUserFunction(unit, name) /\ IsLibraryName(name)
        /\ LibraryDeclarationOf(name).isVariadic
\* the number of arguments a call in the source is to give: the
\* parameters of the function, none for starttime and stoptime
SourceArity(unit, name) ==
    IF IsUserFunction(unit, name)
    THEN Len(unit.functions[CHOOSE f \in 1..Len(unit.functions) :
                                unit.functions[f].name = name].params)
    ELSE IF name \in {"starttime", "stoptime"} THEN 0
    ELSE Len(LibraryDeclarationOf(name).params)
WrongArity(unit, call) ==
    /\ IsUserFunction(unit, call.callee) \/ IsLibraryName(call.callee)
    /\ IF CalleeIsVariadic(unit, call.callee)
       THEN Len(call.args) < SourceArity(unit, call.callee)
       ELSE Len(call.args) # SourceArity(unit, call.callee)
ArityErrors ==
    {"Insufficient arguments passed to variadic function",
     "Incorrect number of arguments passed to function"}

\* C26: a program with a call to a callee of fixed arity (a function of
\* the unit or a library function; starttime and stoptime take no
\* argument) that gives another number of arguments, or with a call to a
\* variadic callee that gives fewer than the fixed ones, is rejected; and
\* the two arity errors are raised for such calls only.
C26_CallArity ==
    /\ pc = "generated" => \A call \in CallsOf(ast) : ~WrongArity(ast, call)
    /\ (pc = "failed" /\ gen.err \in ArityErrors)
           => \E call \in CallsOf(ast) : WrongArity(ast, call)

\* the type reached from an array type through n indices
RECURSIVE IndexedType(_, _)
IndexedType(type, n) ==
    IF n = 0 \/ ~IsArrayTy(type) THEN type ELSE IndexedType(type.elem, n - 1)
\* the getelementptr instructions of a function, and the type of what the
\* result of one points to: the first index steps over the source element
\* type, every further index enters it
GEPs(fn) == {pl \in Places(fn) : InstAt(fn, pl).op = "gep"}
PointeeOf(gep) == IndexedType(gep.extra, Len(gep.args) - 2)
\* the base of the getelementptr is the cell of a true array
OnTrueArray(gep) == IsArrayTy(AllocatedTypeOf(gep.args[1]))
\* the programs that index a rank-IndexRank array with more indices
OverIndexed ==
    {PIndexArray(k, load) : k \in (IndexRank + 1)..MaxIndices, load \in BOOLEAN}
        \cup {PIndexParam(k, load) : k \in (IndexRank + 1)..MaxIndices, load \in BOOLEAN}

\* C27: an lvalue with k indices on a true array is lowered to a
\* getelementptr with the indices [0, i0, ..., i(k-1)], on an array
\* parameter to one without the leading 0; with fewer indices than the
\* rank the result points to a sub-aggregate and nothing is loaded through
\* it, in value mode as in address mode; with more indices than the rank
\* lowering fails.
C27_IndexingLowering ==
    /\ (pc \in {"generated", "failed"} /\ src \in OverIndexed) => pc = "failed"
    /\ (pc \in {"generated", "failed"} /\ src \in PIndexed \ OverIndexed)
           => pc = "generated"
    /\ pc = "generated" =>
           \A f \in UserFunctions :
               LET fn == gen.module.functions[f]
               IN  /\ \A pl \in GEPs(fn) :
                          LET gep == InstAt(fn, pl)
                          IN  IF OnTrueArray(gep)
                              THEN /\ gep.args[2] = ConstantInt(I32, 0)
                                   /\ Len(gep.args) - 2 <= ArrayDimensions(gep.extra)
                              ELSE Len(gep.args) - 1 <= ArrayDimensions(gep.extra) + 1
                   /\ \A pl \in Places(fn) :
                          LET inst == InstAt(fn, pl)
                          IN  (/\ inst.op = "load"
                               /\ inst.args[1].v = "inst"
                               /\ inst.args[1].c = "gep")
                              => ~IsArrayTy(PointeeOf(DefiningInst(fn, inst.args[1])))

(***************************************************************************)
(* Properties that relate folding and lowering, and of control flow        *)
(***************************************************************************)
\* the branch decision of the if statement's lowering for a condition on
\* constants: generateCondExpr, then the comparison with zero
LoweredDecision(cond) == CondToBool(GenerateCondExpr(cond, gen)).val.c = 1

\* C28: for integer literals a and b, the literal the folder puts in the
\* place of `a && b`, `a || b` and `!a` is true (not zero) exactly when
\* condition lowering of the unfolded expression over the same values
\* decides for the then branch.
C28_FoldAgreesWithLowering ==
    (pc = "generated" /\ src \in PLiteralConds) =>
        /\ CondOf(ast).k = "IntConst"
        /\ (CondOf(ast).v # 0) = LoweredDecision(CondOf(src))

\* programs with a statement after a break, a return and a continue
AfterTerminatorPrograms == {PAfterBreak, PAfterReturn, PAfterContinue}
\* an instruction of the block stands after a terminator
AppendedAfterTerminator(block) ==
    \E i \in 1..(Len(block.insts) - 1) : IsTerminator(block.insts[i])

\* C29: once a break, continue or return is lowered into a basic block
\* nothing more is appended to that block, and statements that follow one
\* in the source do not make the program fail to compile.
C29_NothingAfterTerminator ==
    pc \in {"generated", "failed"} =>
        /\ \A f \in UserFunctions :
               \A b \in 1..Len(gen.module.functions[f].blocks) :
                   ~AppendedAfterTerminator(gen.module.functions[f].blocks[b])
        /\ src \in AfterTerminatorPrograms => pc = "generated"

(***************************************************************************)
(* Properties of the emitter's bookkeeping                                 *)
(***************************************************************************)
\* the scope stack is as deep and the two target stacks are the same
\* after as before
SameBookkeeping(g, g1) ==
    /\ Len(g1.symbolTableStack) = Len(g.symbolTableStack)
    /\ g1.breakTargets = g.breakTargets
    /\ g1.continueTargets = g.continueTargets
\* one target of each kind for every enclosing while loop
TargetsOfLoops(g, loops) ==
    Len(g.breakTargets) = loops /\ Len(g.continueTargets) = loops
\* where the lowering of a function begins and ends: no target, and the
\* global frame alone on the scope stack
BetweenFunctions(g) ==
    /\ g.breakTargets = <<>> /\ g.continueTargets = <<>>
    /\ Len(g.symbolTableStack) = 1

\* The statement at path is lowered from the generator g inside `loops`
\* while loops.  It and the statements in it keep the bookkeeping: the
\* statements in it are followed from the generators they are lowered
\* from, which are those of generateStmt's own steps.
RECURSIVE StmtBalanced(_, _, _, _)
RECURSIVE ItemsBalanced(_, _, _, _, _)
StmtBalanced(stmt, path, g, loops) ==
    \/ g.err # ""
    \/ /\ TargetsOfLoops(g, loops)
       /\ (CHOOSE out \in {
              g1.err = "" => SameBookkeeping(g, g1)
            : g1 \in {GenerateStmt(stmt, path, g)}} : TRUE)
       /\ CASE stmt.k = "Block" ->
                  ItemsBalanced(stmt.items, 1, path, PushScope(At(g, path)), loops)
            [] stmt.k = "While" ->
                  StmtBalanced(stmt.body, path \o <<1>>,
                               WhileHead(stmt, At(g, path)).g, loops + 1)
            [] stmt.k = "If" ->
                  (CHOOSE out \in {
                      /\ StmtBalanced(stmt.then, path \o <<1>>, h.g, loops)
                      /\ stmt.else.k # "Null" =>
                             StmtBalanced(stmt.else, path \o <<2>>,
                                 IfElseStart(
                                     BrIfOpen(At(GenerateStmt(stmt.then, path \o <<1>>, h.g),
                                                 path), h.endBB), h),
                                 loops)
                    : h \in {IfHead(stmt, At(g, path))}} : TRUE)
            [] OTHER -> TRUE
ItemsBalanced(items, i, path, g, loops) ==
    \/ g.err # ""
    \/ i > Len(items)
    \/ IF items[i].k \in {"VarDecl", "ConstDecl"}
       THEN ItemsBalanced(items, i + 1, path,
                GenerateDecl(items[i], At(g, path \o <<i>>)), loops)
       ELSE /\ StmtBalanced(items[i], path \o <<i>>, g, loops)
            /\ ItemsBalanced(items, i + 1, path,
                   GenerateStmt(items[i], path \o <<i>>, g), loops)

\* generateFunction reaches the body of func from g
BodyLowered(func, g) ==
    /\ func.name = "main" => ~g.hasMainFunc /\ MainSignatureOk(func)
    /\ LookupSymbol(g, func.name) = Nullopt
\* the generator the body of func is lowered from
BodyStart(func, astIndex, g) ==
    FunctionHead(func, astIndex,
        IF func.name = "main" THEN [g EXCEPT !.hasMainFunc = TRUE] ELSE g).g

\* the functions funcs[i..] are lowered from g, one after the other
RECURSIVE FunctionsBalanced(_, _, _)
FunctionsBalanced(funcs, i, g) ==
    \/ g.err # ""
    \/ i > Len(funcs)
    \/ /\ BetweenFunctions(g)
       /\ BodyLowered(funcs[i], g) =>
              (CHOOSE out \in {
                  \/ start.err # ""
                  \/ /\ TargetsOfLoops(start, 0)
                     /\ (CHOOSE out \in {
                            g1.err = "" => SameBookkeeping(start, g1)
                          : g1 \in {GenerateBlock(funcs[i].body, <<>>, start)}} : TRUE)
                     /\ ItemsBalanced(funcs[i].body.items, 1, <<>>, PushScope(start), 0)
                : start \in {BodyStart(funcs[i], i, g)}} : TRUE)
       /\ (CHOOSE out \in {
              /\ g1.err = "" => BetweenFunctions(g1)
              /\ FunctionsBalanced(funcs, i + 1, g1)
            : g1 \in {GenerateOneFunction(funcs[i], i, g)}} : TRUE)

\* C30: the emitter's bookkeeping is balanced.  In every run of
\* generate(), a statement or block that is lowered without error leaves
\* the depth of the scope stack and the two target stacks as they were;
\* where a statement is lowered the target stacks are as long as the
\* number of while loops around it; and where the lowering of a function
\* begins or ends both are empty and the scope stack holds the global
\* frame alone.
C30_BookkeepingBalanced ==
    [][(pc = "declared" /\ pc' # "declared")
           => FunctionsBalanced(ast.functions, 1, GenerateGlobals(ast, gen))]_vars

\* a statement of the unit is a while loop with a block, an if statement
\* and a break in it
RECURSIVE StmtsOf(_)
StmtsOf(stmt) ==
    CASE stmt.k = "Block" ->
             {stmt} \cup UNION {StmtsOf(stmt.items[i]) : i \in 1..Len(stmt.items)}
      [] stmt.k = "If" -> {stmt} \cup StmtsOf(stmt.then) \cup StmtsOf(stmt.else)
      [] stmt.k = "While" -> {stmt} \cup StmtsOf(stmt.body)
      [] OTHER -> {stmt}
HasLoopWithBreak(unit) ==
    \E f \in 1..Len(unit.functions) :
        \E loop \in StmtsOf(unit.functions[f].body) :
            /\ loop.k = "While"
            /\ {"Block", "If", "Break"} \subseteq {s.k : s \in StmtsOf(loop.body)}
\* a program with such a loop has been lowered
C30_Witness ==
    /\ pc = "generated"
    /\ HasLoopWithBreak(ast)
    /\ gen.breakTargets = <<>> /\ gen.continueTargets = <<>>

====
